---------------------------- MODULE Spec2Model ----------------------------
(***************************************************************************)
(* ReplyCraft: the cache store (shared/storage.ts), the cache service and  *)
(* the ANALYZE_THREAD handler of the service worker, the cache-key         *)
(* derivation, and the Thread Extractor's validation gate.                 *)
(*                                                                         *)
(* Strings are sequences of one-character strings, so that charCodeAt,     *)
(* toLowerCase, trim and concatenation are computed as the code computes  *)
(* them.                                                                   *)
(***************************************************************************)
EXTENDS Integers, Sequences, FiniteSets, TLC

VARIABLES
    store,      \* chrome.storage.local: cache key -> CacheEntry or NoEntry
    index,      \* chrome.storage.local "cacheIndex": CacheIndex or NoIndex
    now,        \* Date.now(), in TTL units (hours)
    hung,       \* TRUE once a cache operation has entered a call chain that never returns
    last,       \* the operation that ran last, with its arguments and outcome
    keyIn,      \* inputs of a generateCacheKey comparison
    keyOut,     \* the keys generated for keyIn
    adapterOut, \* what adapter.extractThreadContext() produced
    extracted,  \* what extractThreadContext returned
    page,       \* the page the content script runs in: its URL and what its DOM yields
    adapters,   \* the adapters array of the adapter factory
    call        \* the call made last in the content script, with arguments and outcome

vars == <<store, index, now, hung, last, keyIn, keyOut, adapterOut, extracted,
          page, adapters, call>>

cacheVars == <<store, index, now, hung, last>>
keyVars == <<keyIn, keyOut>>
extractVars == <<adapterOut, extracted>>
contentVars == <<page, adapters, call>>

-----------------------------------------------------------------------------
(* Strings *)

\* the characters the model's strings are made of, each with its UTF-16 code
CharTable ==
    {<<"a", 97>>, <<"b", 98>>, <<"c", 99>>, <<"d", 100>>, <<"e", 101>>,
     <<"f", 102>>, <<"g", 103>>, <<"h", 104>>, <<"i", 105>>, <<"j", 106>>,
     <<"k", 107>>, <<"l", 108>>, <<"m", 109>>, <<"n", 110>>, <<"o", 111>>,
     <<"p", 112>>, <<"q", 113>>, <<"r", 114>>, <<"s", 115>>, <<"t", 116>>,
     <<"u", 117>>, <<"v", 118>>, <<"w", 119>>, <<"x", 120>>, <<"y", 121>>,
     <<"z", 122>>, <<"A", 65>>, <<"B", 66>>, <<"C", 67>>, <<"D", 68>>, <<"E",
     69>>, <<"F", 70>>, <<"G", 71>>, <<"H", 72>>, <<"I", 73>>, <<"J", 74>>,
     <<"K", 75>>, <<"L", 76>>, <<"M", 77>>, <<"N", 78>>, <<"O", 79>>, <<"P",
     80>>, <<"Q", 81>>, <<"R", 82>>, <<"S", 83>>, <<"T", 84>>, <<"U", 85>>,
     <<"V", 86>>, <<"W", 87>>, <<"X", 88>>, <<"Y", 89>>, <<"Z", 90>>, <<"0",
     48>>, <<"1", 49>>, <<"2", 50>>, <<"3", 51>>, <<"4", 52>>, <<"5", 53>>,
     <<"6", 54>>, <<"7", 55>>, <<"8", 56>>, <<"9", 57>>, <<":", 58>>, <<"/",
     47>>, <<".", 46>>, <<"?", 63>>, <<"=", 61>>, <<"&", 38>>, <<"#", 35>>,
     <<"_", 95>>, <<"-", 45>>}

Alphabet == {p[1] : p \in CharTable}

\* String.prototype.charCodeAt
CharCode == [c \in Alphabet |-> (CHOOSE p \in CharTable : p[1] = c)[2]]

LowerTable ==
    {<<"A", "a">>, <<"B", "b">>, <<"C", "c">>, <<"D", "d">>, <<"E", "e">>,
     <<"F", "f">>, <<"G", "g">>, <<"H", "h">>, <<"I", "i">>, <<"J", "j">>,
     <<"K", "k">>, <<"L", "l">>, <<"M", "m">>, <<"N", "n">>, <<"O", "o">>,
     <<"P", "p">>, <<"Q", "q">>, <<"R", "r">>, <<"S", "s">>, <<"T", "t">>,
     <<"U", "u">>, <<"V", "v">>, <<"W", "w">>, <<"X", "x">>, <<"Y", "y">>,
     <<"Z", "z">>}

UpperToLower ==
    [c \in {p[1] : p \in LowerTable} |-> (CHOOSE p \in LowerTable : p[1] = c)[2]]

\* String.prototype.toLowerCase
ToLowerChar(c) == IF c \in DOMAIN UpperToLower THEN UpperToLower[c] ELSE c

ToLowerCase(s) == [i \in 1..Len(s) |-> ToLowerChar(s[i])]

\* the digits of Number.prototype.toString(36)
Digits36 ==
    <<"0", "1", "2", "3", "4", "5", "6", "7", "8", "9", "a", "b", "c", "d",
      "e", "f", "g", "h", "i", "j", "k", "l", "m", "n", "o", "p", "q", "r",
      "s", "t", "u", "v", "w", "x", "y", "z">>

-----------------------------------------------------------------------------
(* String literals used as inputs *)

Str_https == <<"h", "t", "t", "p", "s">>

Str_reddit_com == <<"r", "e", "d", "d", "i", "t", ".", "c", "o", "m">>

Str_REDDIT_com == <<"R", "E", "D", "D", "I", "T", ".", "c", "o", "m">>

Str_path_123 == <<"/", "r", "/", "t", "e", "s", "t", "/", "c", "o", "m", "m", "e", "n", "t", "s", "/", "1", "2", "3">>

Str_path_456 == <<"/", "r", "/", "t", "e", "s", "t", "/", "c", "o", "m", "m", "e", "n", "t", "s", "/", "4", "5", "6">>

Str_path_Test_123 == <<"/", "r", "/", "T", "e", "s", "t", "/", "c", "o", "m", "m", "e", "n", "t", "s", "/", "1", "2", "3">>

Str_utm_source == <<"u", "t", "m", "_", "s", "o", "u", "r", "c", "e">>

Str_utm_medium == <<"u", "t", "m", "_", "m", "e", "d", "i", "u", "m">>

Str_utm_campaign == <<"u", "t", "m", "_", "c", "a", "m", "p", "a", "i", "g", "n">>

Str_ref == <<"r", "e", "f">>

Str_context == <<"c", "o", "n", "t", "e", "x", "t">>

Str_UTM_SOURCE == <<"U", "T", "M", "_", "S", "O", "U", "R", "C", "E">>

Str_sort == <<"s", "o", "r", "t">>

Str_share == <<"s", "h", "a", "r", "e">>

Str_new == <<"n", "e", "w">>

Str_top == <<"t", "o", "p">>

Str_friendly == <<"f", "r", "i", "e", "n", "d", "l", "y">>

Str_professional == <<"p", "r", "o", "f", "e", "s", "s", "i", "o", "n", "a", "l">>

Str_humorous == <<"h", "u", "m", "o", "r", "o", "u", "s">>

Str_concise == <<"c", "o", "n", "c", "i", "s", "e">>

Str_Aa == <<"A", "a">>

Str_BB == <<"B", "B">>

-----------------------------------------------------------------------------
(* Cache key derivation: generateCacheKey, normalizeUrl, hashString        *)
(* (shared/storage.ts).  A URL is given by its components; Href is the     *)
(* string handed to generateCacheKey.  The components use only letters,    *)
(* digits and - _ . /, which URL parsing and query serialisation leave     *)
(* unescaped.  A URL with an empty scheme is a string `new URL` rejects.   *)

\* Array.prototype.join over name=value pairs with "&"
RECURSIVE SerializeQuery(_)
SerializeQuery(q) ==
    IF q = <<>> THEN <<>>
    ELSE LET pair == q[1].name \o <<"=">> \o q[1].value
         IN  IF Len(q) = 1 THEN pair
             ELSE pair \o <<"&">> \o SerializeQuery(Tail(q))

\* URL.prototype.toString / the href the page hands over
Href(u) ==
    (IF u.scheme = <<>> THEN <<>> ELSE u.scheme \o <<":", "/", "/">>)
    \o u.host \o u.path
    \o (IF u.query = <<>> THEN <<>> ELSE <<"?">> \o SerializeQuery(u.query))
    \o (IF u.hash = <<>> THEN <<>> ELSE <<"#">> \o u.hash)

\* new URL(url): the parser lower-cases scheme and host and keeps the rest
ParseUrl(u) == [u EXCEPT !.scheme = ToLowerCase(u.scheme), !.host = ToLowerCase(u.host)]

\* URLSearchParams.prototype.delete(name): drops every pair of that exact name
SearchParamsDelete(u, name) ==
    [u EXCEPT !.query = SelectSeq(u.query, LAMBDA p : p.name # name)]

normalizeUrl(u) ==
    IF u.scheme = <<>>
    THEN ToLowerCase(Href(u))
    ELSE LET p0 == ParseUrl(u)
             p1 == SearchParamsDelete(p0, Str_utm_source)
             p2 == SearchParamsDelete(p1, Str_utm_medium)
             p3 == SearchParamsDelete(p2, Str_utm_campaign)
             p4 == SearchParamsDelete(p3, Str_ref)
             p5 == SearchParamsDelete(p4, Str_context)
             p6 == [p5 EXCEPT !.hash = <<>>]
         IN  ToLowerCase(Href(p6))

\* A 32-bit integer is kept as <<high 16 bits, low 16 bits>> of its two's
\* complement, so that no intermediate value exceeds 32 bits.
Limb == 65536

\* one round of hashString: hash = (hash << 5) - hash + char; hash = hash & hash
HashStep(h, code) ==
    LET lo == h[2] * 31 + code
        hi == h[1] * 31 + (lo \div Limb)
    IN  <<hi % Limb, lo % Limb>>

\* The loop of hashString over str[i..j], starting from hash h.  The range
\* is split in two and the hash after the first half is computed before the
\* second half is entered, which keeps the evaluation shallow; the rounds
\* are applied in the order of the characters.
RECURSIVE HashRange(_, _, _, _)
HashRange(h, str, i, j) ==
    IF i > j THEN h
    ELSE IF i = j THEN HashStep(h, CharCode[str[i]])
    ELSE LET m == (i + j) \div 2
         IN  CHOOSE r \in {HashRange(v, str, m + 1, j) :
                              v \in {HashRange(h, str, i, m)}} : TRUE

\* Math.abs of the signed 32-bit value
Abs32(h) ==
    IF h[1] < 32768 THEN h
    ELSE IF h[2] = 0 THEN <<Limb - h[1], 0>>
         ELSE <<Limb - 1 - h[1], Limb - h[2]>>

\* Number.prototype.toString(36) of a non-negative value
RECURSIVE ToString36(_)
ToString36(m) ==
    LET qhi == m[1] \div 36
        t   == (m[1] % 36) * Limb + m[2]
        qlo == t \div 36
        d   == Digits36[(t % 36) + 1]
    IN  IF qhi = 0 /\ qlo = 0 THEN <<d>>
        ELSE ToString36(<<qhi, qlo>>) \o <<d>>

hashString(str) ==
    CHOOSE key \in {ToString36(Abs32(HashRange(<<0, 0>>, s, 1, Len(s)))) : s \in {str}} : TRUE

\* a key that leaves the tone out
generateCacheKeyNoTone(u, tone) == hashString(normalizeUrl(u))

generateCacheKey(u, tone) == hashString(normalizeUrl(u) \o <<":">> \o tone)

-----------------------------------------------------------------------------
(* Cache configuration (shared/constants.ts, CACHE_CONFIG)                 *)

\* Sizes are counted in model units, not bytes: the two size limits are
\* scaled down (the source has 100 * 1024 and 8 * 1024 * 1024) so that a
\* bounded run can fill the cache.  Only their order matters to the code
\* modelled here: an entry may be stored iff its size is at most
\* MAX_ENTRY_SIZE_BYTES, and pruning starts when the running total exceeds
\* MAX_STORAGE_BYTES.
MAX_ENTRY_SIZE_BYTES == 2

MAX_STORAGE_BYTES == 4

\* Math.ceil(n * CACHE_CONFIG.PRUNE_PERCENTAGE) with PRUNE_PERCENTAGE = 0.2;
\* the double product n * 0.2 rounds to the exact fifth for every n <= 100
PruneCount(n) == (n + 4) \div 5

-----------------------------------------------------------------------------
(* Bounds of the model *)

\* the clock runs from 0 to MaxTime
MaxTime == 2

\* depth to which a getCacheEntry <-> removeCacheEntry call chain is followed;
\* a chain on a valid or absent entry ends at depth 2, a chain on an expired
\* entry repeats the same two calls on the same storage and has no end
MaxCallDepth == 3

\* saves are not started once the running total has reached MaxTotalSize
MaxTotalSize == 6

-----------------------------------------------------------------------------
(* Inputs of the cache model *)

UrlA == [scheme |-> Str_https, host |-> Str_reddit_com, path |-> Str_path_123,
         query |-> <<>>, hash |-> <<>>]

UrlB == [UrlA EXCEPT !.path = Str_path_456]

\* The page URLs of the cache model.  States hold a URL by its name, which
\* stands for the string Href(PageUrl[name]); distinct names are distinct
\* strings.
CacheUrls == {"A", "B"}

\* the page of UrlA opened through a share link
UrlAShare == [UrlA EXCEPT !.query = <<[name |-> Str_utm_source, value |-> Str_share]>>]

ThreadUrls == CacheUrls \cup {"AShare"}

PageUrl == [n \in ThreadUrls |->
               CASE n = "A" -> UrlA [] n = "B" -> UrlB [] n = "AShare" -> UrlAShare]

\* TONE_PRESETS
TonePresets == {"friendly", "professional", "humorous", "concise"}

ToneText == [t \in TonePresets |->
                CASE t = "friendly" -> Str_friendly
                  [] t = "professional" -> Str_professional
                  [] t = "humorous" -> Str_humorous
                  [] t = "concise" -> Str_concise]

\* cacheTTLHours of the preferences
TTLHours == {1}

\* what the AI client can return: a result by the size of its serialisation,
\* or a failure
AIResults == {"short", "long", "oversized"}

AIError == "ai_error"

\* generateCacheKey over the inputs of the cache model, computed once
KeyTable == [n \in ThreadUrls, t \in TonePresets |->
                generateCacheKey(PageUrl[n], ToneText[t])]

\* the (page, tone) pairs that are requested
Requests == {<<"A", "friendly">>, <<"A", "professional">>, <<"B", "friendly">>}

CacheKeys == {KeyTable[q[1], q[2]] : q \in Requests}

-----------------------------------------------------------------------------
(* Cache store: shared/storage.ts *)

NoEntry == [tag |-> "undefined"]

NoIndex == [tag |-> "no_index"]

NoArg == [tag |-> "no_argument"]

Null == [tag |-> "null"]

Ok == [tag |-> "ok"]

Threw == [tag |-> "threw"]

\* the call never returns
Diverged == [tag |-> "diverged"]

\* estimateSize(entry): the length of the JSON serialisation, which the
\* model takes from the suggestions the entry carries
PayloadBytes == [p \in AIResults |->
                    CASE p = "short" -> 1 [] p = "long" -> 2 [] p = "oversized" -> 3]

estimateSize(entry) == PayloadBytes[entry.suggestions]

Max(a, b) == IF a >= b THEN a ELSE b

SeqContains(s, x) == \E i \in 1..Len(s) : s[i] = x

getCacheIndex(st, t) ==
    IF st.index = NoIndex
    THEN [keys |-> <<>>, totalSize |-> 0, lastPruned |-> t]
    ELSE st.index

saveCacheIndex(st, idx) == [st EXCEPT !.index = idx]

\* an expiry test that is late by one time unit
IsExpiredLate(entry, t) == t > entry.expiresAt + 1

\* Date.now() > entry.expiresAt
IsExpired(entry, t) == t > entry.expiresAt

RECURSIVE getCacheEntry(_, _, _, _), removeCacheEntry(_, _, _, _)

\* Returns [st, ret]: the storage afterwards and the entry, Null or Diverged.
getCacheEntry(st, cacheKey, t, depth) ==
    IF depth = 0 THEN [st |-> st, ret |-> Diverged]
    ELSE LET entry == st.store[cacheKey]
         IN  IF entry = NoEntry THEN [st |-> st, ret |-> Null]
             ELSE IF IsExpired(entry, t)
                  THEN LET r == removeCacheEntry(st, cacheKey, t, depth - 1)
                       IN  IF r.ret = Diverged THEN r
                           ELSE [st |-> r.st, ret |-> Null]
                  ELSE [st |-> st, ret |-> entry]

\* Returns [st, ret]: the storage afterwards and Ok or Diverged.
removeCacheEntry(st, cacheKey, t, depth) ==
    IF depth = 0 THEN [st |-> st, ret |-> Diverged]
    ELSE LET g == getCacheEntry(st, cacheKey, t, depth - 1)
         IN  IF g.ret = Diverged THEN g
             ELSE LET entrySize == IF g.ret = Null THEN 0 ELSE estimateSize(g.ret)
                      st1 == [g.st EXCEPT !.store[cacheKey] = NoEntry]
                      idx == getCacheIndex(st1, t)
                      idx1 == [idx EXCEPT
                                 !.keys = SelectSeq(idx.keys, LAMBDA k : k # cacheKey),
                                 !.totalSize = Max(0, idx.totalSize - entrySize)]
                  IN  [st |-> saveCacheIndex(st1, idx1), ret |-> Ok]

\* the removal loops of pruneCache and clearCacheForUrl
RECURSIVE RemoveEach(_, _, _)
RemoveEach(st, keys, t) ==
    IF keys = <<>> THEN [st |-> st, ret |-> Ok]
    ELSE LET r == removeCacheEntry(st, keys[1], t, MaxCallDepth)
         IN  IF r.ret = Diverged THEN r ELSE RemoveEach(r.st, Tail(keys), t)

\* Array.prototype.sort((a, b) => a.createdAt - b.createdAt), which is stable:
\* e goes behind every element that is not younger
RECURSIVE InsertByCreatedAt(_, _)
InsertByCreatedAt(sorted, e) ==
    IF sorted = <<>> THEN <<e>>
    ELSE IF sorted[1].createdAt <= e.createdAt
         THEN <<sorted[1]>> \o InsertByCreatedAt(Tail(sorted), e)
         ELSE <<e>> \o sorted

RECURSIVE SortByCreatedAt(_)
SortByCreatedAt(entries) ==
    IF entries = <<>> THEN <<>>
    ELSE InsertByCreatedAt(SortByCreatedAt(SubSeq(entries, 1, Len(entries) - 1)),
                           entries[Len(entries)])

\* the entries pruneCache collects: one per index key that has a stored entry
RECURSIVE CollectEntries(_, _)
CollectEntries(st, keys) ==
    IF keys = <<>> THEN <<>>
    ELSE LET entry == st.store[keys[1]]
             rest == CollectEntries(st, Tail(keys))
         IN  IF entry = NoEntry THEN rest
             ELSE <<[key |-> keys[1], createdAt |-> entry.createdAt,
                     size |-> estimateSize(entry)]>> \o rest

\* pruneCache(index?): idxArg is the index passed, or NoArg
pruneCache(st, idxArg, t) ==
    LET currentIndex == IF idxArg = NoArg THEN getCacheIndex(st, t) ELSE idxArg
        entries == SortByCreatedAt(CollectEntries(st, currentIndex.keys))
        removeCount == PruneCount(Len(entries))
        toRemove == SubSeq(entries, 1, removeCount)
        r == RemoveEach(st, [i \in 1..Len(toRemove) |-> toRemove[i].key], t)
    IN  IF r.ret = Diverged THEN r
        ELSE LET newIndex == [getCacheIndex(r.st, t) EXCEPT !.lastPruned = t]
             IN  [st |-> saveCacheIndex(r.st, newIndex), ret |-> Ok]

\* a size test against the budget of the whole cache
ExceedsStorageCap(entrySize) == entrySize > MAX_STORAGE_BYTES

\* entrySize > CACHE_CONFIG.MAX_ENTRY_SIZE_BYTES
ExceedsEntryCap(entrySize) == entrySize > MAX_ENTRY_SIZE_BYTES

saveCacheEntry(st, entry, t) ==
    LET entrySize == estimateSize(entry)
    IN  IF ExceedsEntryCap(entrySize) THEN [st |-> st, ret |-> Threw]
        ELSE LET idx0 == getCacheIndex(st, t)
                 idx1 == [idx0 EXCEPT
                            !.keys = IF SeqContains(idx0.keys, entry.cacheKey)
                                     THEN idx0.keys
                                     ELSE Append(idx0.keys, entry.cacheKey),
                            !.totalSize = idx0.totalSize + entrySize]
                 p == IF idx1.totalSize > MAX_STORAGE_BYTES
                      THEN pruneCache(st, idx1, t)
                      ELSE [st |-> st, ret |-> Ok]
             IN  IF p.ret = Diverged THEN p
                 ELSE [st |-> saveCacheIndex(
                                  [p.st EXCEPT !.store[entry.cacheKey] = entry], idx1),
                       ret |-> Ok]

clearCache(st, t) ==
    LET idx == getCacheIndex(st, t)
    IN  [st |-> [store |-> [k \in DOMAIN st.store |->
                               IF SeqContains(idx.keys, k) THEN NoEntry ELSE st.store[k]],
                 index |-> NoIndex],
         ret |-> Ok]

\* the scan loop of clearCacheForUrl: returns [st, ret, keys]
RECURSIVE ScanForUrl(_, _, _, _, _)
ScanForUrl(st, keys, url, t, acc) ==
    IF keys = <<>> THEN [st |-> st, ret |-> Ok, keys |-> acc]
    ELSE LET g == getCacheEntry(st, keys[1], t, MaxCallDepth)
         IN  IF g.ret = Diverged THEN [st |-> g.st, ret |-> Diverged, keys |-> acc]
             ELSE ScanForUrl(g.st, Tail(keys), url, t,
                             IF g.ret # Null /\ g.ret.threadUrl = url
                             THEN Append(acc, keys[1]) ELSE acc)

clearCacheForUrl(st, url, t) ==
    LET idx == getCacheIndex(st, t)
        scan == ScanForUrl(st, idx.keys, url, t, <<>>)
    IN  IF scan.ret = Diverged THEN [st |-> scan.st, ret |-> Diverged]
        ELSE RemoveEach(scan.st, scan.keys, t)

-----------------------------------------------------------------------------
(* Cache service: background/cache-service.ts *)

\* a lookup that never finds anything
getCachedAnalysisMiss(st, u, tone, t) == [st |-> st, ret |-> Null]

getCachedAnalysis(st, u, tone, t) ==
    getCacheEntry(st, KeyTable[u, tone], t, MaxCallDepth)

\* the CacheEntry cacheAnalysis builds
NewCacheEntry(u, tone, suggestions, ttlHours, t) ==
    [cacheKey |-> KeyTable[u, tone],
     threadUrl |-> u,
     tone |-> tone,
     suggestions |-> suggestions,
     createdAt |-> t,
     expiresAt |-> t + ttlHours]

cacheAnalysis(st, u, tone, suggestions, ttlHours, t) ==
    saveCacheEntry(st, NewCacheEntry(u, tone, suggestions, ttlHours, t), t)

-----------------------------------------------------------------------------
(* Message handler of the service worker: handleAnalyzeThread and the      *)
(* catch of setupMessageHandler                                            *)

NoResponse == [tag |-> "no_response"]

ErrorResponse(code) == [success |-> FALSE, code |-> code]

AnalysisResponse(suggestions, fromCache) ==
    [success |-> TRUE, suggestions |-> suggestions, fromCache |-> fromCache]

\* handleAnalyzeThread after the AI client answered ai: c is what
\* cacheAnalysis did
RespondAfterCaching(c, ai) ==
    IF c.ret = Diverged
    THEN [st |-> c.st, resp |-> NoResponse, aiCalled |-> TRUE]
    ELSE IF c.ret = Threw
    THEN [st |-> c.st, resp |-> ErrorResponse("UNKNOWN_ERROR"), aiCalled |-> TRUE]
    ELSE [st |-> c.st, resp |-> AnalysisResponse(ai, FALSE), aiCalled |-> TRUE]

\* handleAnalyzeThread after the cache lookup: cached is what
\* getCachedAnalysis did
RespondAfterLookup(cached, u, tone, hasApiKey, ai, ttlHours, t) ==
    IF cached.ret = Diverged
    THEN [st |-> cached.st, resp |-> NoResponse, aiCalled |-> FALSE]
    ELSE IF cached.ret # Null
    THEN [st |-> cached.st, resp |-> AnalysisResponse(cached.ret.suggestions, TRUE),
          aiCalled |-> FALSE]
    ELSE IF ~hasApiKey
    THEN [st |-> cached.st, resp |-> ErrorResponse("API_KEY_MISSING"), aiCalled |-> FALSE]
    ELSE IF ai = AIError
    THEN [st |-> cached.st, resp |-> ErrorResponse("AI_ERROR"), aiCalled |-> TRUE]
    ELSE RespondAfterCaching(cacheAnalysis(cached.st, u, tone, ai, ttlHours, t), ai)

\* Returns [st, resp, aiCalled].  hasApiKey and ttlHours are the preferences
\* read, ai is what the AI client answers if it is called.
handleAnalyzeThread(st, u, tone, hasApiKey, ai, ttlHours, t) ==
    RespondAfterLookup(getCachedAnalysis(st, u, tone, t), u, tone, hasApiKey, ai, ttlHours, t)

-----------------------------------------------------------------------------
(* The cache as a state machine: one operation at a time *)

Storage == [store |-> store, index |-> index]

\* the effect of an operation that returned r
Effect(r) ==
    /\ store' = r.st.store
    /\ index' = r.st.index
    /\ hung' = (r.ret = Diverged)

IdleKey == [tag |-> "idle"]

InitCache ==
    /\ store = [k \in CacheKeys |-> NoEntry]
    /\ index = NoIndex
    /\ now = 0
    /\ hung = FALSE
    /\ last = [op |-> "init"]

\* nothing has happened in the content script
IdleContent ==
    /\ page = IdleKey
    /\ adapters = IdleKey
    /\ call = IdleKey

InitOther ==
    /\ keyIn = IdleKey
    /\ keyOut = IdleKey
    /\ adapterOut = IdleKey
    /\ extracted = IdleKey
    /\ IdleContent

Init == InitCache /\ InitOther

\* time passes between two operations
Tick ==
    /\ ~hung
    /\ now < MaxTime
    /\ now' = now + 1
    /\ last' = [op |-> "tick"]
    /\ UNCHANGED <<store, index, hung, keyVars, extractVars, contentVars>>

GetCacheEntry(k) ==
    /\ ~hung
    /\ LET r == getCacheEntry(Storage, k, now, MaxCallDepth)
       IN  /\ Effect(r)
           /\ last' = [op |-> "getCacheEntry", key |-> k, ret |-> r.ret]
    /\ UNCHANGED <<now, keyVars, extractVars, contentVars>>

CacheAnalysis(u, tone, suggestions, ttlHours) ==
    /\ ~hung
    /\ getCacheIndex(Storage, now).totalSize < MaxTotalSize
    /\ LET r == cacheAnalysis(Storage, u, tone, suggestions, ttlHours, now)
       IN  /\ Effect(r)
           /\ last' = [op |-> "saveCacheEntry", key |-> KeyTable[u, tone],
                       suggestions |-> suggestions, ret |-> r.ret]
    /\ UNCHANGED <<now, keyVars, extractVars, contentVars>>

RemoveCacheEntry(k) ==
    /\ ~hung
    /\ LET r == removeCacheEntry(Storage, k, now, MaxCallDepth)
       IN  /\ Effect(r)
           /\ last' = [op |-> "removeCacheEntry", key |-> k, ret |-> r.ret]
    /\ UNCHANGED <<now, keyVars, extractVars, contentVars>>

PruneCache ==
    /\ ~hung
    /\ LET r == pruneCache(Storage, NoArg, now)
       IN  /\ Effect(r)
           /\ last' = [op |-> "pruneCache", ret |-> r.ret]
    /\ UNCHANGED <<now, keyVars, extractVars, contentVars>>

ClearCache ==
    /\ ~hung
    /\ LET r == clearCache(Storage, now)
       IN  /\ Effect(r)
           /\ last' = [op |-> "clearCache", ret |-> r.ret]
    /\ UNCHANGED <<now, keyVars, extractVars, contentVars>>

ClearCacheForUrl(u) ==
    /\ ~hung
    /\ LET r == clearCacheForUrl(Storage, u, now)
       IN  /\ Effect(r)
           /\ last' = [op |-> "clearCacheForUrl", url |-> u, ret |-> r.ret]
    /\ UNCHANGED <<now, keyVars, extractVars, contentVars>>

\* an ANALYZE_THREAD request, from its arrival to its response
AnalyzeThread(u, tone, hasApiKey, ai, ttlHours) ==
    /\ ~hung
    /\ getCacheIndex(Storage, now).totalSize < MaxTotalSize
    /\ \E r \in {handleAnalyzeThread(Storage, u, tone, hasApiKey, ai, ttlHours, now)} :
           /\ store' = r.st.store
           /\ index' = r.st.index
           /\ hung' = (r.resp = NoResponse)
           /\ last' = [op |-> "ANALYZE_THREAD", url |-> u, tone |-> tone,
                       resp |-> r.resp, aiCalled |-> r.aiCalled,
                       \* the request before was the same one, answered from the AI
                       repeat |-> /\ last.op = "ANALYZE_THREAD"
                                  /\ last.url = u
                                  /\ last.tone = tone
                                  /\ last.resp # NoResponse
                                  /\ last.resp.success
                                  /\ ~last.resp.fromCache]
    /\ UNCHANGED <<now, keyVars, extractVars, contentVars>>

Next ==
    \/ Tick
    \/ \E k \in CacheKeys : GetCacheEntry(k)
    \/ \E q \in Requests, s \in AIResults, ttl \in TTLHours :
          CacheAnalysis(q[1], q[2], s, ttl)
    \/ \E k \in CacheKeys : RemoveCacheEntry(k)
    \/ PruneCache
    \/ ClearCache
    \/ \E u \in CacheUrls : ClearCacheForUrl(u)
    \/ \E q \in Requests, hasApiKey \in BOOLEAN,
          ai \in AIResults \cup {AIError}, ttl \in TTLHours :
          AnalyzeThread(q[1], q[2], hasApiKey, ai, ttl)

Spec == Init /\ [][Next]_vars

-----------------------------------------------------------------------------
(* The hourly alarm of the cache service: checkAndPruneCache *)

\* CACHE_CONFIG.PRUNE_INTERVAL_MINUTES, in the hours the model counts time in
PRUNE_INTERVAL == 1

\* the loop of pruneExpiredEntries: getCacheEntry for each key of the index
RECURSIVE ReadEach(_, _, _)
ReadEach(st, keys, t) ==
    IF keys = <<>> THEN [st |-> st, ret |-> Ok]
    ELSE LET g == getCacheEntry(st, keys[1], t, MaxCallDepth)
         IN  IF g.ret = Diverged THEN g ELSE ReadEach(g.st, Tail(keys), t)

pruneExpiredEntries(st, t) ==
    LET r == ReadEach(st, getCacheIndex(st, t).keys, t)
    IN  IF r.ret = Diverged THEN r
        ELSE [st |-> saveCacheIndex(r.st, [getCacheIndex(r.st, t) EXCEPT !.lastPruned = t]),
              ret |-> Ok]

checkAndPruneCache(st, t) ==
    LET idx == getCacheIndex(st, t)
    IN  IF idx.totalSize > MAX_STORAGE_BYTES THEN pruneCache(st, idx, t)
        ELSE IF t - idx.lastPruned > PRUNE_INTERVAL THEN pruneExpiredEntries(st, t)
        ELSE [st |-> st, ret |-> Ok]

\* the keys of the entries that have expired by time t
ExpiredKeys(st, t) ==
    {k \in DOMAIN st.store : IF st.store[k] = NoEntry THEN FALSE ELSE t > st.store[k].expiresAt}

\* the alarm fires and its listener runs checkAndPruneCache
CachePruneAlarm ==
    /\ ~hung
    /\ \E r \in {checkAndPruneCache(Storage, now)} :
          /\ Effect(r)
          /\ last' = [op |-> "alarm", ret |-> r.ret, expired |-> ExpiredKeys(Storage, now)]
    /\ UNCHANGED <<now, keyVars, extractVars, contentVars>>

NextAlarm ==
    \/ Tick
    \/ \E q \in Requests, s \in AIResults, ttl \in TTLHours :
          CacheAnalysis(q[1], q[2], s, ttl)
    \/ CachePruneAlarm

SpecAlarm == Init /\ [][NextAlarm]_vars

-----------------------------------------------------------------------------
(* Clearing the cache of one thread: handleClearCache(url) *)

ClearRequests == Requests \cup {<<"AShare", "friendly">>}

NextClear ==
    \/ Tick
    \/ \E q \in ClearRequests, s \in AIResults, ttl \in TTLHours :
          CacheAnalysis(q[1], q[2], s, ttl)
    \/ \E u \in ThreadUrls : ClearCacheForUrl(u)

SpecClear == Init /\ [][NextClear]_vars

-----------------------------------------------------------------------------
(* Two saveCacheEntry calls on one key whose awaits interleave             *)

Savers == {1, 2}

\* the request both calls are for
OverlapRequest == <<"A", "friendly">>

OverlapKey == KeyTable[OverlapRequest[1], OverlapRequest[2]]

\* the index after the synchronous update that follows the read
UpdatedIndex(idx0, entry) ==
    [idx0 EXCEPT
       !.keys = IF SeqContains(idx0.keys, entry.cacheKey)
                THEN idx0.keys
                ELSE Append(idx0.keys, entry.cacheKey),
       !.totalSize = idx0.totalSize + estimateSize(entry)]

\* caches the calls can find: empty, one other entry, two other entries that
\* fill the budget
StoredBefore(others) ==
    [k \in CacheKeys |->
        IF \E q \in others : KeyTable[q[1], q[2]] = k
        THEN LET q == CHOOSE r \in others : KeyTable[r[1], r[2]] = k
             IN  NewCacheEntry(q[1], q[2], "long", 1, 0)
        ELSE NoEntry]

IndexBefore(order) ==
    IF order = <<>> THEN NoIndex
    ELSE [keys |-> [i \in 1..Len(order) |-> KeyTable[order[i][1], order[i][2]]],
          totalSize |-> 2 * Len(order),
          lastPruned |-> 0]

InitOverlap ==
    /\ \E order \in {<<>>, <<<<"B", "friendly">>>>,
                     <<<<"B", "friendly">>, <<"A", "professional">>>>} :
          /\ store = StoredBefore({order[i] : i \in 1..Len(order)})
          /\ index = IndexBefore(order)
    /\ now = 0
    /\ hung = FALSE
    /\ last = [op |-> "init"]
    /\ call = [p \in Savers |-> [pc |-> "idle"]]
    /\ page = IdleKey
    /\ adapters = IdleKey
    /\ adapterOut = IdleKey
    /\ extracted = IdleKey
    /\ keyIn = IdleKey
    /\ keyOut = IdleKey

\* cacheAnalysis builds the entry and saveCacheEntry runs up to its first
\* await; an oversized entry makes it throw
StartSave(p, suggestions) ==
    /\ call[p].pc = "idle"
    /\ \E entry \in {NewCacheEntry(OverlapRequest[1], OverlapRequest[2], suggestions, 1, now)} :
          call' = [call EXCEPT ![p] =
                      IF ExceedsEntryCap(estimateSize(entry))
                      THEN [pc |-> "threw", entry |-> entry]
                      ELSE [pc |-> "getCacheIndex", entry |-> entry]]
    /\ UNCHANGED <<page, adapters, cacheVars, keyVars, extractVars>>

\* await getCacheIndex() and the update of the object it returned
ReadIndex(p) ==
    /\ call[p].pc = "getCacheIndex"
    /\ \E idx \in {UpdatedIndex(getCacheIndex(Storage, now), call[p].entry)} :
          call' = [call EXCEPT ![p] =
                      [pc |-> IF idx.totalSize > MAX_STORAGE_BYTES THEN "pruneCache" ELSE "set",
                       entry |-> call[p].entry, index |-> idx]]
    /\ UNCHANGED <<page, adapters, cacheVars, keyVars, extractVars>>

\* await pruneCache(index)
PruneBeforeSet(p) ==
    /\ call[p].pc = "pruneCache"
    /\ ~hung
    /\ \E r \in {pruneCache(Storage, call[p].index, now)} :
          /\ Effect(r)
          /\ call' = [call EXCEPT ![p].pc = IF r.ret = Diverged THEN "hung" ELSE "set"]
    /\ UNCHANGED <<page, adapters, now, last, keyVars, extractVars>>

\* await chrome.storage.local.set({ [storageKey]: entry })
SetEntry(p) ==
    /\ call[p].pc = "set"
    /\ store' = [store EXCEPT ![call[p].entry.cacheKey] = call[p].entry]
    /\ call' = [call EXCEPT ![p].pc = "saveCacheIndex"]
    /\ UNCHANGED <<page, adapters, index, now, hung, last, keyVars, extractVars>>

\* await saveCacheIndex(index)
SaveIndex(p) ==
    /\ call[p].pc = "saveCacheIndex"
    /\ index' = call[p].index
    /\ call' = [call EXCEPT ![p].pc = "done"]
    /\ UNCHANGED <<page, adapters, store, now, hung, last, keyVars, extractVars>>

\* time passes while the calls are under way
TimePasses ==
    /\ now < MaxTime
    /\ now' = now + 1
    /\ UNCHANGED <<page, adapters, call, store, index, hung, last, keyVars, extractVars>>

NextOverlap ==
    \/ \E p \in Savers, s \in AIResults : StartSave(p, s)
    \/ \E p \in Savers : ReadIndex(p)
    \/ \E p \in Savers : PruneBeforeSet(p)
    \/ \E p \in Savers : SetEntry(p)
    \/ \E p \in Savers : SaveIndex(p)
    \/ TimePasses

SpecOverlap == InitOverlap /\ [][NextOverlap]_vars

-----------------------------------------------------------------------------
(* pruneCache on caches of up to six entries *)

PruneRequests == {<<u, t>> : u \in CacheUrls, t \in {"friendly", "professional", "humorous"}}

PruneKeys == {KeyTable[q[1], q[2]] : q \in PruneRequests}

\* the request a key of PruneKeys belongs to
RequestOf(k) == CHOOSE q \in PruneRequests : KeyTable[q[1], q[2]] = k

\* the two insertion orders the index is drawn with
PruneKeyOrder ==
    <<KeyTable["A", "friendly"], KeyTable["B", "friendly"],
      KeyTable["A", "professional"], KeyTable["B", "professional"],
      KeyTable["A", "humorous"], KeyTable["B", "humorous"]>>

Reverse(s) == [i \in 1..Len(s) |-> s[Len(s) + 1 - i]]

\* a cache as saves at times 0 and 1 leave it, at time 1, when every entry
\* is still valid
InitPrune ==
    /\ \E created \in [PruneKeys -> {-1, 0, 1}], order \in {PruneKeyOrder, Reverse(PruneKeyOrder)} :
          LET s == [k \in PruneKeys |->
                       IF created[k] < 0 THEN NoEntry
                       ELSE NewCacheEntry(RequestOf(k)[1], RequestOf(k)[2], "short",
                                          1, created[k])]
              keys == SelectSeq(order, LAMBDA k : s[k] # NoEntry)
          IN  /\ store = s
              /\ index = IF keys = <<>> THEN NoIndex
                         ELSE [keys |-> keys, totalSize |-> Len(keys) * PayloadBytes["short"],
                               lastPruned |-> 0]
    /\ now = 1
    /\ hung = FALSE
    /\ last = [op |-> "init"]
    /\ InitOther

NextPrune ==
    \/ Tick
    \/ PruneCache

SpecPrune == InitPrune /\ [][NextPrune]_vars

-----------------------------------------------------------------------------
(* generateCacheKey as a function of the URL and the tone *)

KeyQueries ==
    { <<>>,
      <<[name |-> Str_utm_source, value |-> Str_share]>>,
      <<[name |-> Str_utm_source, value |-> Str_new]>>,
      <<[name |-> Str_UTM_SOURCE, value |-> Str_share]>>,
      <<[name |-> Str_ref, value |-> Str_share]>>,
      <<[name |-> Str_sort, value |-> Str_new]>>,
      <<[name |-> Str_sort, value |-> Str_new], [name |-> Str_context, value |-> Str_top]>> }

\* the page of the unit tests (cache-service.test.ts) in lower and in mixed
\* case, with and without query parameters and fragment, a second page, and
\* a string that is no absolute URL
KeyUrls ==
    { [scheme |-> Str_https, host |-> c[1], path |-> c[2], query |-> q, hash |-> f] :
         c \in {<<Str_reddit_com, Str_path_123>>, <<Str_REDDIT_com, Str_path_Test_123>>},
         q \in KeyQueries, f \in {<<>>, Str_top} }
    \cup {UrlB, [UrlA EXCEPT !.scheme = <<>>]}

\* the presets and two custom tone texts
KeyTones == {Str_friendly, Str_professional, Str_humorous, Str_concise, Str_Aa, Str_BB}

PresetToneTexts == {ToneText[t] : t \in TonePresets}

InitKey ==
    /\ keyIn \in [a : KeyUrls, b : KeyUrls, t1 : KeyTones, t2 : KeyTones]
    /\ keyOut = IdleKey
    /\ adapterOut = IdleKey
    /\ extracted = IdleKey
    /\ IdleContent
    /\ store = [k \in {} |-> NoEntry]
    /\ index = NoIndex
    /\ now = 0
    /\ hung = FALSE
    /\ last = [op |-> "init"]

\* the keys of (a, t1), (b, t1) and (a, t2) are derived
GenerateCacheKeys ==
    /\ keyOut = IdleKey
    /\ keyOut' = [a1 |-> generateCacheKey(keyIn.a, keyIn.t1),
                  b1 |-> generateCacheKey(keyIn.b, keyIn.t1),
                  a2 |-> generateCacheKey(keyIn.a, keyIn.t2)]
    /\ UNCHANGED <<keyIn, cacheVars, extractVars, contentVars>>

NextKey == GenerateCacheKeys

SpecKey == InitKey /\ [][NextKey]_vars

-----------------------------------------------------------------------------
(* Thread extraction: extractWithAdapter and isValidContext                *)
(* (content/thread-extractor)                                              *)

WhiteSpace == {" ", "\t", "\n"}

\* String.prototype.trim
RECURSIVE TrimStart(_)
TrimStart(s) ==
    IF s # <<>> /\ s[1] \in WhiteSpace THEN TrimStart(Tail(s)) ELSE s

RECURSIVE TrimEnd(_)
TrimEnd(s) ==
    IF s # <<>> /\ s[Len(s)] \in WhiteSpace THEN TrimEnd(SubSeq(s, 1, Len(s) - 1)) ELSE s

Trim(s) == TrimEnd(TrimStart(s))

\* a validation that does not look at the url
isValidContextAnyUrl(context) ==
    /\ \/ Len(Trim(context.postTitle)) > 0
       \/ Len(Trim(context.postBody)) > 0
       \/ Len(context.comments) > 0
    /\ context.platform \in {"reddit", "twitter", "facebook"}

isValidContext(context) ==
    IF context.url = <<>> THEN FALSE
    ELSE LET hasContent == \/ Len(Trim(context.postTitle)) > 0
                           \/ Len(Trim(context.postBody)) > 0
                           \/ Len(context.comments) > 0
         IN  IF ~hasContent THEN FALSE
             ELSE LET validPlatforms == {"reddit", "twitter", "facebook"}
                  IN  IF context.platform \notin validPlatforms THEN FALSE
                      ELSE TRUE

AdapterThrows == [tag |-> "throws"]

NoAdapter == [tag |-> "no_adapter"]

\* adapterResult is what adapter.extractThreadContext() does: it returns a
\* context or null, or throws
extractWithAdapter(adapterResult) ==
    IF adapterResult = AdapterThrows THEN Null
    ELSE IF adapterResult = Null THEN Null
    ELSE IF ~isValidContext(adapterResult) THEN Null
    ELSE adapterResult

\* adapterResult is NoAdapter when getCurrentAdapter() finds none
extractThreadContext(adapterResult) ==
    IF adapterResult = NoAdapter THEN Null
    ELSE extractWithAdapter(adapterResult)

\* texts an adapter can hand over as title or body
ExtractedTexts == {<<>>, <<" ">>, <<"\n", " ">>, <<"a">>, <<" ", "a", " ">>}

ExtractedComments == {<<>>, <<[author |-> "u1", text |-> <<"a">>]>>}

AdapterContexts ==
    [url : {<<>>, Href(UrlA)},
     platform : {"reddit", "twitter", "facebook", "instagram"},
     postTitle : ExtractedTexts,
     postBody : ExtractedTexts,
     comments : ExtractedComments]

InitExtract ==
    /\ adapterOut \in AdapterContexts \cup {Null, AdapterThrows, NoAdapter}
    /\ extracted = IdleKey
    /\ keyIn = IdleKey
    /\ keyOut = IdleKey
    /\ IdleContent
    /\ store = [k \in {} |-> NoEntry]
    /\ index = NoIndex
    /\ now = 0
    /\ hung = FALSE
    /\ last = [op |-> "init"]

ExtractThreadContext ==
    /\ extracted = IdleKey
    /\ extracted' = extractThreadContext(adapterOut)
    /\ UNCHANGED <<adapterOut, cacheVars, keyVars, contentVars>>

NextExtract == ExtractThreadContext

SpecExtract == InitExtract /\ [][NextExtract]_vars

-----------------------------------------------------------------------------
(* Adapter registry: platform-adapters/adapter-factory.ts, and canHandle   *)
(* of BasePlatformAdapter with the URL patterns of the three adapters      *)

Re_http == <<"h", "t", "t", "p">>

Re_s == <<"s">>

Re_colon_slashes == <<":", "/", "/">>

Re_www == <<"w", "w", "w", ".">>

Re_reddit_r == <<"r", "e", "d", "d", "i", "t", ".", "c", "o", "m", "/", "r", "/">>

Re_comments == <<"/", "c", "o", "m", "m", "e", "n", "t", "s", "/">>

Re_old_reddit_r == <<"o", "l", "d", ".", "r", "e", "d", "d", "i", "t", ".", "c", "o", "m", "/", "r", "/">>

Re_reddit_user == <<"r", "e", "d", "d", "i", "t", ".", "c", "o", "m", "/", "u", "s", "e", "r", "/">>

Re_twitter == <<"t", "w", "i", "t", "t", "e", "r">>

Re_x == <<"x">>

Re_com == <<".", "c", "o", "m", "/">>

Re_status == <<"/", "s", "t", "a", "t", "u", "s", "/">>

Re_facebook == <<"f", "a", "c", "e", "b", "o", "o", "k", ".", "c", "o", "m", "/">>

Re_posts == <<"/", "p", "o", "s", "t", "s", "/">>

Re_facebook_groups == <<"f", "a", "c", "e", "b", "o", "o", "k", ".", "c", "o", "m", "/", "g", "r", "o", "u", "p", "s", "/">>

Re_facebook_permalink == <<"f", "a", "c", "e", "b", "o", "o", "k", ".", "c", "o", "m", "/", "p", "e", "r", "m", "a", "l", "i", "n", "k", ".", "p", "h", "p">>

Re_photos == <<"/", "p", "h", "o", "t", "o", "s", "/">>

Re_facebook_photo == <<"f", "a", "c", "e", "b", "o", "o", "k", ".", "c", "o", "m", "/", "p", "h", "o", "t", "o">>

\* Pieces of a regular expression anchored at the start of the string: a
\* choice of literals (an optional literal has the empty one among them) and
\* [^/]+
ReLit(lit) == [kind |-> "alt", alts |-> {lit}]

ReOpt(lit) == [kind |-> "alt", alts |-> {lit, <<>>}]

ReAlt(lits) == [kind |-> "alt", alts |-> lits]

ReSegment == [kind |-> "segment"]

HasPrefixAt(str, i, lit) ==
    /\ i + Len(lit) - 1 <= Len(str)
    /\ \A k \in 1..Len(lit) : str[i + k - 1] = lit[k]

\* whether the pieces pat match str from position i on
RECURSIVE MatchesAt(_, _, _)
MatchesAt(pat, str, i) ==
    IF pat = <<>> THEN TRUE
    ELSE IF pat[1].kind = "alt"
         THEN \E lit \in pat[1].alts :
                 HasPrefixAt(str, i, lit) /\ MatchesAt(Tail(pat), str, i + Len(lit))
         ELSE \E j \in (i + 1)..(Len(str) + 1) :
                 /\ \A k \in i..(j - 1) : str[k] # "/"
                 /\ MatchesAt(Tail(pat), str, j)

\* RegExp.prototype.test for a pattern that starts with ^
RegExpTest(pat, str) == MatchesAt(pat, str, 1)

\* ^https?:\/\/
ReScheme == <<ReLit(Re_http), ReOpt(Re_s), ReLit(Re_colon_slashes)>>

RedditUrlPatterns ==
    { ReScheme \o <<ReOpt(Re_www), ReLit(Re_reddit_r), ReSegment, ReLit(Re_comments)>>,
      ReScheme \o <<ReLit(Re_old_reddit_r), ReSegment, ReLit(Re_comments)>>,
      ReScheme \o <<ReOpt(Re_www), ReLit(Re_reddit_user), ReSegment, ReLit(Re_comments)>> }

TwitterUrlPatterns ==
    { ReScheme \o <<ReOpt(Re_www), ReAlt({Re_twitter, Re_x}), ReLit(Re_com), ReSegment,
                    ReLit(Re_status)>> }

FacebookUrlPatterns ==
    { ReScheme \o <<ReOpt(Re_www), ReLit(Re_facebook), ReSegment, ReLit(Re_posts)>>,
      ReScheme \o <<ReOpt(Re_www), ReLit(Re_facebook_groups), ReSegment, ReLit(Re_posts)>>,
      ReScheme \o <<ReOpt(Re_www), ReLit(Re_facebook_permalink)>>,
      ReScheme \o <<ReOpt(Re_www), ReLit(Re_facebook), ReSegment, ReLit(Re_photos)>>,
      ReScheme \o <<ReOpt(Re_www), ReLit(Re_facebook_photo)>> }

redditAdapter == [platform |-> "reddit", urlPatterns |-> RedditUrlPatterns]

twitterAdapter == [platform |-> "twitter", urlPatterns |-> TwitterUrlPatterns]

facebookAdapter == [platform |-> "facebook", urlPatterns |-> FacebookUrlPatterns]

\* adapters handed to registerAdapter later on: a second adapter for reddit,
\* and two adapters for further platforms that handle every http(s) page
otherRedditAdapter == [platform |-> "reddit", urlPatterns |-> {ReScheme}]

mastodonAdapter == [platform |-> "mastodon", urlPatterns |-> {ReScheme}]

blueskyAdapter == [platform |-> "bluesky", urlPatterns |-> {ReScheme}]

canHandle(adapter, url) == \E pat \in adapter.urlPatterns : RegExpTest(pat, url)

\* a lookup that keeps the last adapter that can handle the url
RECURSIVE getAdapterLast(_, _)
getAdapterLast(registry, url) ==
    IF registry = <<>> THEN Null
    ELSE IF canHandle(registry[Len(registry)], url) THEN registry[Len(registry)]
    ELSE getAdapterLast(SubSeq(registry, 1, Len(registry) - 1), url)

RECURSIVE getAdapter(_, _)
getAdapter(registry, url) ==
    IF registry = <<>> THEN Null
    ELSE IF canHandle(registry[1], url) THEN registry[1]
    ELSE getAdapter(Tail(registry), url)

registerAdapter(registry, adapter) ==
    IF \E i \in 1..Len(registry) : registry[i].platform = adapter.platform
    THEN registry
    ELSE Append(registry, adapter)

\* the registry after the constructor of AdapterFactoryImpl
AdapterFactoryImpl ==
    registerAdapter(registerAdapter(registerAdapter(<<>>, redditAdapter), twitterAdapter),
                    facebookAdapter)

Url_reddit_www == <<"h", "t", "t", "p", "s", ":", "/", "/", "w", "w", "w", ".", "r", "e", "d", "d", "i", "t", ".", "c", "o", "m", "/", "r", "/", "t", "e", "s", "t", "/", "c", "o", "m", "m", "e", "n", "t", "s", "/", "1", "2", "3">>

Url_reddit_bare == <<"h", "t", "t", "p", ":", "/", "/", "r", "e", "d", "d", "i", "t", ".", "c", "o", "m", "/", "r", "/", "t", "e", "s", "t", "/", "c", "o", "m", "m", "e", "n", "t", "s", "/", "1", "2", "3">>

Url_reddit_old == <<"h", "t", "t", "p", "s", ":", "/", "/", "o", "l", "d", ".", "r", "e", "d", "d", "i", "t", ".", "c", "o", "m", "/", "r", "/", "t", "e", "s", "t", "/", "c", "o", "m", "m", "e", "n", "t", "s", "/", "1", "2", "3">>

Url_reddit_user == <<"h", "t", "t", "p", "s", ":", "/", "/", "w", "w", "w", ".", "r", "e", "d", "d", "i", "t", ".", "c", "o", "m", "/", "u", "s", "e", "r", "/", "b", "o", "b", "/", "c", "o", "m", "m", "e", "n", "t", "s", "/", "1">>

Url_reddit_sub == <<"h", "t", "t", "p", "s", ":", "/", "/", "w", "w", "w", ".", "r", "e", "d", "d", "i", "t", ".", "c", "o", "m", "/", "r", "/", "t", "e", "s", "t">>

Url_reddit_nosub == <<"h", "t", "t", "p", "s", ":", "/", "/", "w", "w", "w", ".", "r", "e", "d", "d", "i", "t", ".", "c", "o", "m", "/", "r", "/", "/", "c", "o", "m", "m", "e", "n", "t", "s", "/", "1">>

Url_twitter_status == <<"h", "t", "t", "p", "s", ":", "/", "/", "t", "w", "i", "t", "t", "e", "r", ".", "c", "o", "m", "/", "b", "o", "b", "/", "s", "t", "a", "t", "u", "s", "/", "1">>

Url_x_status == <<"h", "t", "t", "p", "s", ":", "/", "/", "x", ".", "c", "o", "m", "/", "b", "o", "b", "/", "s", "t", "a", "t", "u", "s", "/", "1">>

Url_x_profile == <<"h", "t", "t", "p", "s", ":", "/", "/", "x", ".", "c", "o", "m", "/", "b", "o", "b">>

Url_fb_post == <<"h", "t", "t", "p", "s", ":", "/", "/", "w", "w", "w", ".", "f", "a", "c", "e", "b", "o", "o", "k", ".", "c", "o", "m", "/", "b", "o", "b", "/", "p", "o", "s", "t", "s", "/", "1">>

Url_fb_group_post == <<"h", "t", "t", "p", "s", ":", "/", "/", "w", "w", "w", ".", "f", "a", "c", "e", "b", "o", "o", "k", ".", "c", "o", "m", "/", "g", "r", "o", "u", "p", "s", "/", "g", "/", "p", "o", "s", "t", "s", "/", "1">>

Url_fb_permalink == <<"h", "t", "t", "p", "s", ":", "/", "/", "f", "a", "c", "e", "b", "o", "o", "k", ".", "c", "o", "m", "/", "p", "e", "r", "m", "a", "l", "i", "n", "k", ".", "p", "h", "p">>

Url_fb_photos == <<"h", "t", "t", "p", "s", ":", "/", "/", "w", "w", "w", ".", "f", "a", "c", "e", "b", "o", "o", "k", ".", "c", "o", "m", "/", "b", "o", "b", "/", "p", "h", "o", "t", "o", "s", "/", "1">>

Url_fb_photo == <<"h", "t", "t", "p", "s", ":", "/", "/", "w", "w", "w", ".", "f", "a", "c", "e", "b", "o", "o", "k", ".", "c", "o", "m", "/", "p", "h", "o", "t", "o">>

Url_fb_profile == <<"h", "t", "t", "p", "s", ":", "/", "/", "w", "w", "w", ".", "f", "a", "c", "e", "b", "o", "o", "k", ".", "c", "o", "m", "/", "b", "o", "b">>

Url_example == <<"h", "t", "t", "p", "s", ":", "/", "/", "e", "x", "a", "m", "p", "l", "e", ".", "c", "o", "m", "/", "r", "/", "t", "e", "s", "t", "/", "c", "o", "m", "m", "e", "n", "t", "s", "/", "1">>

PageUrls ==
    { Url_reddit_www, Url_reddit_bare, Url_reddit_old, Url_reddit_user, Url_reddit_sub,
      Url_reddit_nosub, Url_twitter_status, Url_x_status, Url_x_profile,
      Url_fb_post, Url_fb_group_post, Url_fb_permalink, Url_fb_photos,
      Url_fb_photo, Url_fb_profile, Url_example }

RegisteredLater ==
    {redditAdapter, otherRedditAdapter, twitterAdapter, facebookAdapter,
     mastodonAdapter, blueskyAdapter}

InitRegistry ==
    /\ adapters = AdapterFactoryImpl
    /\ call = [op |-> "new AdapterFactoryImpl"]
    /\ page = IdleKey
    /\ keyIn = IdleKey
    /\ keyOut = IdleKey
    /\ adapterOut = IdleKey
    /\ extracted = IdleKey
    /\ store = [k \in {} |-> NoEntry]
    /\ index = NoIndex
    /\ now = 0
    /\ hung = FALSE
    /\ last = [op |-> "init"]

RegisterAdapter(adapter) ==
    /\ adapters' = registerAdapter(adapters, adapter)
    /\ call' = [op |-> "registerAdapter", adapter |-> adapter]
    /\ UNCHANGED <<page, cacheVars, keyVars, extractVars>>

GetAdapter(url) ==
    /\ call' = [op |-> "getAdapter", url |-> url, ret |-> getAdapter(adapters, url)]
    /\ UNCHANGED <<adapters, page, cacheVars, keyVars, extractVars>>

NextRegistry ==
    \/ \E adapter \in RegisteredLater : RegisterAdapter(adapter)
    \/ \E url \in PageUrls : GetAdapter(url)

SpecRegistry == InitRegistry /\ [][NextRegistry]_vars

-----------------------------------------------------------------------------
(* extractThreadContext of the three adapters and of the Thread Extractor  *)
(* on a page whose DOM reads can fail                                      *)

\* what a step of an extraction does: it returns a value or throws
StepOk(v) == [threw |-> FALSE, value |-> v]

StepThrew == [threw |-> TRUE]

\* a catch clause that throws the error on
CatchNothing(result, handled) == result

\* try { result } catch { handled }: result is AdapterThrows when an
\* exception left the try block
Catch(result, handled) == IF result = AdapterThrows THEN handled ELSE result

\* the try block of RedditAdapter.extractThreadContext; pg.ready is
\* debugLogPageStructure
RedditTryBlock(pg) ==
    IF pg.ready.threw \/ pg.title.threw \/ pg.body.threw \/ pg.comments.threw
    THEN AdapterThrows
    ELSE IF pg.title.value = <<>> THEN Null
    ELSE [url |-> pg.url, platform |-> "reddit", postTitle |-> pg.title.value,
          postBody |-> pg.body.value, comments |-> pg.comments.value]

RedditExtractThreadContext(pg) == Catch(RedditTryBlock(pg), Null)

\* the try block of TwitterAdapter.extractThreadContext; pg.ready is
\* waitForContent, pg.body is the main tweet
TwitterTryBlock(pg) ==
    IF pg.ready.threw \/ pg.body.threw \/ pg.comments.threw
    THEN AdapterThrows
    ELSE IF pg.body.value = <<>> THEN Null
    ELSE [url |-> pg.url, platform |-> "twitter", postTitle |-> <<>>,
          postBody |-> pg.body.value, comments |-> pg.comments.value]

TwitterExtractThreadContext(pg) == Catch(TwitterTryBlock(pg), Null)

\* the try block of FacebookAdapter.extractThreadContext
FacebookTryBlock(pg) ==
    IF pg.ready.threw \/ pg.body.threw \/ pg.comments.threw
    THEN AdapterThrows
    ELSE IF pg.body.value = <<>> THEN Null
    ELSE [url |-> pg.url, platform |-> "facebook", postTitle |-> <<>>,
          postBody |-> pg.body.value, comments |-> pg.comments.value]

FacebookExtractThreadContext(pg) == Catch(FacebookTryBlock(pg), Null)

\* an adapter registered later, which catches nothing
OtherExtractThreadContext(adapter, pg) ==
    IF pg.ready.threw \/ pg.body.threw \/ pg.comments.threw
    THEN AdapterThrows
    ELSE [url |-> pg.url, platform |-> adapter.platform, postTitle |-> <<>>,
          postBody |-> pg.body.value, comments |-> pg.comments.value]

\* adapter.extractThreadContext() for the adapter getCurrentAdapter() found
AdapterExtractThreadContext(adapter, pg) ==
    IF adapter = Null THEN NoAdapter
    ELSE IF adapter = redditAdapter THEN RedditExtractThreadContext(pg)
    ELSE IF adapter = twitterAdapter THEN TwitterExtractThreadContext(pg)
    ELSE IF adapter = facebookAdapter THEN FacebookExtractThreadContext(pg)
    ELSE OtherExtractThreadContext(adapter, pg)

StepTexts == {StepOk(<<>>), StepOk(<<" ">>), StepOk(<<"a">>), StepThrew}

StepComments == {StepOk(<<>>), StepOk(<<[author |-> "u1", text |-> <<"a">>]>>), StepThrew}

Pages ==
    [url : {Url_reddit_www, Url_reddit_sub, Url_x_status, Url_fb_post, Url_example},
     ready : {StepOk(TRUE), StepThrew},
     title : StepTexts,
     body : StepTexts,
     comments : StepComments]

InitAdapter ==
    /\ page \in Pages
    /\ adapters \in {AdapterFactoryImpl, registerAdapter(AdapterFactoryImpl, mastodonAdapter)}
    /\ call = IdleKey
    /\ adapterOut = IdleKey
    /\ extracted = IdleKey
    /\ keyIn = IdleKey
    /\ keyOut = IdleKey
    /\ store = [k \in {} |-> NoEntry]
    /\ index = NoIndex
    /\ now = 0
    /\ hung = FALSE
    /\ last = [op |-> "init"]

\* extractThreadContext() of the Thread Extractor on the current page
ExtractFromPage ==
    /\ extracted = IdleKey
    /\ \E result \in {AdapterExtractThreadContext(getAdapter(adapters, page.url), page)} :
          /\ adapterOut' = result
          /\ extracted' = extractThreadContext(result)
    /\ UNCHANGED <<page, adapters, call, cacheVars, keyVars>>

NextAdapter == ExtractFromPage

SpecAdapter == InitAdapter /\ [][NextAdapter]_vars

-----------------------------------------------------------------------------
(* insertText of the text inserter                                         *)

\* str.replace(/\s+/g, ' ')
RECURSIVE CollapseWhiteSpace(_)
CollapseWhiteSpace(s) ==
    IF s = <<>> THEN <<>>
    ELSE IF Head(s) \in WhiteSpace
         THEN IF Len(s) >= 2 /\ s[2] \in WhiteSpace
              THEN CollapseWhiteSpace(Tail(s))
              ELSE <<" ">> \o CollapseWhiteSpace(Tail(s))
         ELSE <<Head(s)>> \o CollapseWhiteSpace(Tail(s))

\* str.includes(sub)
Includes(str, sub) ==
    \E i \in 0..(Len(str) - Len(sub)) : SubSeq(str, i + 1, i + Len(sub)) = sub

\* BasePlatformAdapter.getInputText
getInputText(input) == input.text

\* what the editor and its listeners do with a write of setInputText
EditorReactions == {"keeps", "reformats", "replaces", "blanks", "empties", "throwsBefore", "throwsAfter"}

\* adapter.setInputText(input, text, append) under a reaction of the editor:
\* the element afterwards and whether the call threw
setInputText(input, text, append, reaction) ==
    LET written == IF append THEN input.text \o text ELSE text
        shown == CASE reaction = "keeps" -> written
                   [] reaction = "reformats" ->
                        IF written # <<>> /\ written[Len(written)] = "\n"
                        THEN written ELSE written \o <<"\n">>
                   [] reaction = "replaces" -> <<"z">>
                   [] reaction = "blanks" -> <<" ", "\n">>
                   [] reaction = "empties" -> <<>>
                   [] reaction = "throwsBefore" -> input.text
                   [] reaction = "throwsAfter" -> written
    IN [input |-> [input EXCEPT !.text = shown],
        threw |-> reaction \in {"throwsBefore", "throwsAfter"}]

fallbackInsert(element, text) == [element EXCEPT !.text = text]

\* the fallback is taken whenever the expected text is not found
NeedsFallbackOnMismatch(newText, text) ==
    ~Includes(CollapseWhiteSpace(Trim(newText)), CollapseWhiteSpace(Trim(text)))

\* the condition of the fallback in insertText
NeedsFallback(newText, text) ==
    LET normalizedNew == CollapseWhiteSpace(Trim(newText))
        normalizedExpected == CollapseWhiteSpace(Trim(text))
    IN ~Includes(normalizedNew, normalizedExpected) /\ Len(normalizedNew) = 0

SetInputTextCall(text, append) == [fn |-> "setInputText", text |-> text, append |-> append]

FallbackInsertCall(text) == [fn |-> "fallbackInsert", text |-> text]

\* the error insertText ends with when the restore threw as well
RaiseRestoreError(error, restoreThrew) ==
    IF restoreThrew THEN [tag |-> "error", from |-> 2] ELSE error

\* try { restore } catch { } ; throw error
IgnoreRestoreError(error, restoreThrew) == error

\* the try block of insertText after setInputText returned
VerifyInsertion(written, text) ==
    IF NeedsFallback(getInputText(written), text)
    THEN [input |-> fallbackInsert(written, text),
          calls |-> <<SetInputTextCall(text, FALSE), FallbackInsertCall(text)>>,
          threw |-> FALSE]
    ELSE [input |-> written, calls |-> <<SetInputTextCall(text, FALSE)>>, threw |-> FALSE]

\* the catch block of insertText
RestoreOriginal(failed, text, originalText, restoreReaction) ==
    LET restore == setInputText(failed, originalText, FALSE, restoreReaction)
    IN [input |-> restore.input,
        calls |-> <<SetInputTextCall(text, FALSE), SetInputTextCall(originalText, FALSE)>>,
        threw |-> TRUE,
        error |-> IgnoreRestoreError([tag |-> "error", from |-> 1], restore.threw)]

\* insertText(input, text, adapter): the element afterwards, the calls made
\* on the adapter and the fallback, and how insertText ended
insertText(input, text, reaction, restoreReaction) ==
    LET first == setInputText(input, text, FALSE, reaction)
    IN IF first.threw
       THEN RestoreOriginal(first.input, text, getInputText(input), restoreReaction)
       ELSE VerifyInsertion(first.input, text)

DraftTexts == {<<>>, <<"d">>, <<" ">>}

InsertedTexts == {<<"h", "i">>, <<" ", "a", " ", " ", "b">>, <<" ">>, <<>>}

InitInsert ==
    /\ page \in [text : DraftTexts, kind : {"textarea", "contenteditable"}]
    /\ adapters = IdleKey
    /\ call = [op |-> "init"]
    /\ adapterOut = IdleKey
    /\ extracted = IdleKey
    /\ keyIn = IdleKey
    /\ keyOut = IdleKey
    /\ store = [k \in {} |-> NoEntry]
    /\ index = NoIndex
    /\ now = 0
    /\ hung = FALSE
    /\ last = [op |-> "init"]

InsertText(text, reaction, restoreReaction) ==
    /\ \E r \in {insertText(page, text, reaction, restoreReaction)} :
          /\ page' = r.input
          /\ call' = [op |-> "insertText", text |-> text, before |-> page.text,
                      reaction |-> reaction, restoreReaction |-> restoreReaction,
                      calls |-> r.calls, threw |-> r.threw,
                      error |-> IF r.threw THEN r.error ELSE Null]
    /\ UNCHANGED <<adapters, cacheVars, keyVars, extractVars>>

NextInsert ==
    \E text \in InsertedTexts, reaction, restoreReaction \in EditorReactions :
        InsertText(text, reaction, restoreReaction)

SpecInsert == InitInsert /\ [][NextInsert]_vars

-----------------------------------------------------------------------------
(* waitForContent of the Twitter and the Facebook adapter                  *)

maxAttempts == 20

\* a check that resolves only when it finds the content
CheckResolvesOnContent(found, attempts) == found

\* if (content || attempts >= maxAttempts)
CheckResolves(found, attempts) == found \/ attempts >= maxAttempts

\* one run of check(): it resolves the promise, or counts the attempt and
\* sets the timer for the next run
check(w, found) ==
    IF CheckResolves(found, w.attempts)
    THEN [w EXCEPT !.checks = @ + 1, !.resolved = TRUE, !.timer = FALSE,
                   !.sawContent = found]
    ELSE [w EXCEPT !.checks = @ + 1, !.attempts = @ + 1, !.timer = TRUE]

\* new Promise(...): attempts = 0 and the first check() runs at once
waitForContent(platform, found) ==
    check([op |-> "waitForContent", platform |-> platform, attempts |-> 0,
           checks |-> 0, resolved |-> FALSE, timer |-> FALSE, sawContent |-> FALSE],
          found)

InitWait ==
    /\ page \in [present : BOOLEAN]
    /\ adapters = IdleKey
    /\ call = [op |-> "init"]
    /\ adapterOut = IdleKey
    /\ extracted = IdleKey
    /\ keyIn = IdleKey
    /\ keyOut = IdleKey
    /\ store = [k \in {} |-> NoEntry]
    /\ index = NoIndex
    /\ now = 0
    /\ hung = FALSE
    /\ last = [op |-> "init"]

\* extractThreadContext awaits waitForContent()
WaitForContent(platform) ==
    /\ IF call.op = "init" THEN TRUE ELSE call.resolved
    /\ call' = waitForContent(platform, page.present)
    /\ UNCHANGED <<page, adapters, cacheVars, keyVars, extractVars>>

\* the timer of setTimeout(check, 100) fires
TimerFires ==
    /\ IF call.op = "waitForContent" THEN call.timer ELSE FALSE
    /\ call' = check(call, page.present)
    /\ UNCHANGED <<page, adapters, cacheVars, keyVars, extractVars>>

\* the page renders or removes the awaited content
ContentChanges ==
    /\ page' = [page EXCEPT !.present = ~@]
    /\ UNCHANGED <<call, adapters, cacheVars, keyVars, extractVars>>

NextWait ==
    \/ \E platform \in {"twitter", "facebook"} : WaitForContent(platform)
    \/ TimerFires
    \/ ContentChanges

\* a timer that was set fires
SpecWait == InitWait /\ [][NextWait]_vars /\ WF_vars(TimerFires)

-----------------------------------------------------------------------------
(* The rewrite hotkey: handleRewriteHotkey of the service worker and the   *)
(* content script's handling of the messages it sends                      *)

Str_hi == <<"h", "i">>

Str_add_reply == <<"A", "d", "d", " ", "r", "e", "p", "l", "y">>

Str_sorry == <<"S", "o", "r", "r", "y">>

Str_bye == <<" ", "b", "y", "e">>

GetDraftTextMessage == [type |-> "GET_DRAFT_TEXT", text |-> <<>>]

ShowToastMessage(type) == [type |-> "SHOW_TOAST", text |-> <<type>>]

InsertTextMessage(text) == [type |-> "INSERT_TEXT", text |-> text]

\* placeholderPatterns.some(pattern => pattern.test(draftText)), the patterns
\* taken with single blanks and without their optional parts
IsPlaceholder(draftText) ==
    \E lit \in {<<"a", "d", "d", " ", "r", "e", "p", "l", "y">>,
                <<"a", "d", "d", " ", "c", "o", "m", "m", "e", "n", "t">>,
                <<"p", "o", "s", "t", " ", "r", "e", "p", "l", "y">>} :
        HasPrefixAt(ToLowerCase(draftText), 1, lit)

\* errorPatterns.some(pattern => pattern.test(rewrittenText)), likewise
IsErrorLike(rewrittenText) ==
    \E lit \in {<<"s", "o", "r", "r", "y">>,
                <<"a", "p", "o", "l", "o", "g", "i", "e", "s">>,
                <<"i", " ", "c", "a", "n", "n", "o", "t">>} :
        HasPrefixAt(ToLowerCase(rewrittenText), 1, lit)

\* what rewriteDraft and analyzeThread can end with
AIOutcomes ==
    [tag : {"success"}, text : {Str_bye, Str_sorry}]
        \cup [tag : {"failure", "threw"}, text : {<<>>}]

\* a handler that inserts whatever rewriteDraft ended with
handleRewriteInsertsAlways(rewrite) ==
    <<ShowToastMessage("loading"), InsertTextMessage(Trim(rewrite.text)),
      ShowToastMessage("success")>>

\* handleRewrite: the messages it sends to the content script
handleRewrite(rewrite) ==
    <<ShowToastMessage("loading")>>
        \o (IF rewrite.tag = "success"
            THEN IF IsErrorLike(Trim(rewrite.text))
                 THEN <<ShowToastMessage("error")>>
                 ELSE <<InsertTextMessage(Trim(rewrite.text)), ShowToastMessage("success")>>
            ELSE <<ShowToastMessage("error")>>)

\* handleGenerate; hasContext is whether EXTRACT_THREAD gave a context
handleGenerate(hasContext, analysis) ==
    <<ShowToastMessage("loading"), [type |-> "EXTRACT_THREAD", text |-> <<>>]>>
        \o (IF ~hasContext THEN <<ShowToastMessage("error")>>
            ELSE IF analysis.tag = "success"
                 THEN <<InsertTextMessage(analysis.text), ShowToastMessage("success")>>
                 ELSE <<ShowToastMessage("error")>>)

\* handleRewriteHotkey of service-worker.ts
handleRewriteHotkeyInline(supported, loaded, responseText, hasApiKey, rewrite) ==
    IF ~supported THEN [sent |-> <<>>, flow |-> "none", rewriteCalled |-> FALSE]
    ELSE IF ~loaded
    THEN [sent |-> <<GetDraftTextMessage>>, flow |-> "none", rewriteCalled |-> FALSE]
    ELSE IF responseText = <<>>
    THEN [sent |-> <<GetDraftTextMessage, ShowToastMessage("error")>>,
          flow |-> "none", rewriteCalled |-> FALSE]
    ELSE IF ~hasApiKey
    THEN [sent |-> <<GetDraftTextMessage, ShowToastMessage("loading"), ShowToastMessage("error")>>,
          flow |-> "rewrite", rewriteCalled |-> FALSE]
    ELSE [sent |-> <<GetDraftTextMessage, ShowToastMessage("loading")>>
                      \o (IF rewrite.tag = "success"
                          THEN <<InsertTextMessage(rewrite.text), ShowToastMessage("success")>>
                          ELSE <<ShowToastMessage("error")>>),
          flow |-> "rewrite", rewriteCalled |-> TRUE]

\* handleRewriteHotkey that hands over to handleRewrite and handleGenerate
handleRewriteHotkey(supported, loaded, responseText, hasApiKey, rewrite, hasContext) ==
    LET draftText == Trim(responseText)
        hasUserText == Len(draftText) >= 2 /\ ~IsPlaceholder(draftText)
        flow == IF hasUserText THEN "rewrite" ELSE "generate"
    IN IF ~supported THEN [sent |-> <<>>, flow |-> "none", rewriteCalled |-> FALSE]
       ELSE IF ~loaded
       THEN [sent |-> <<GetDraftTextMessage>>, flow |-> "none", rewriteCalled |-> FALSE]
       ELSE IF ~hasApiKey
       THEN [sent |-> <<GetDraftTextMessage, ShowToastMessage("error")>>,
             flow |-> flow, rewriteCalled |-> FALSE]
       ELSE IF hasUserText
       THEN [sent |-> <<GetDraftTextMessage>> \o handleRewrite(rewrite),
             flow |-> flow, rewriteCalled |-> TRUE]
       ELSE [sent |-> <<GetDraftTextMessage>> \o handleGenerate(hasContext, rewrite),
             flow |-> flow, rewriteCalled |-> FALSE]

\* handleMessage of the content script for each message in turn; only
\* INSERT_TEXT writes to the reply box
RECURSIVE HandleMessages(_, _)
HandleMessages(input, messages) ==
    IF messages = <<>> THEN input
    ELSE HandleMessages(
             IF Head(messages).type = "INSERT_TEXT"
             THEN insertText(input, Head(messages).text, "keeps", "keeps").input
             ELSE input,
             Tail(messages))

ReplyBoxTexts == {<<>>, <<"a">>, Str_hi, Str_add_reply}

InitHotkey ==
    /\ page \in [text : ReplyBoxTexts, kind : {"textarea"}]
    /\ adapters = IdleKey
    /\ call = [op |-> "init"]
    /\ adapterOut = IdleKey
    /\ extracted = IdleKey
    /\ keyIn = IdleKey
    /\ keyOut = IdleKey
    /\ store = [k \in {} |-> NoEntry]
    /\ index = NoIndex
    /\ now = 0
    /\ hung = FALSE
    /\ last = [op |-> "init"]

\* the user edits the reply box
UserTypes(text) ==
    /\ page.text # text
    /\ page' = [page EXCEPT !.text = text]
    /\ call' = [op |-> "input"]
    /\ UNCHANGED <<adapters, cacheVars, keyVars, extractVars>>

\* the rewrite command arrives and its handler runs to the end
RewriteHotkey(inline, supported, loaded, hasApiKey, rewrite, hasContext) ==
    /\ \E r \in {IF inline
                 THEN handleRewriteHotkeyInline(supported, loaded, getInputText(page), hasApiKey, rewrite)
                 ELSE handleRewriteHotkey(supported, loaded, getInputText(page), hasApiKey, rewrite, hasContext)} :
          /\ page' = (IF loaded THEN HandleMessages(page, r.sent) ELSE page)
          /\ call' = [op |-> "hotkey", inline |-> inline, before |-> page.text,
                      hasApiKey |-> hasApiKey, rewrite |-> rewrite, flow |-> r.flow,
                      rewriteCalled |-> r.rewriteCalled, sent |-> r.sent]
    /\ UNCHANGED <<adapters, cacheVars, keyVars, extractVars>>

NextHotkey ==
    \/ \E text \in ReplyBoxTexts : UserTypes(text)
    \/ \E inline, supported, loaded, hasApiKey, hasContext \in BOOLEAN, rewrite \in AIOutcomes :
          RewriteHotkey(inline, supported, loaded, hasApiKey, rewrite, hasContext)

SpecHotkey == InitHotkey /\ [][NextHotkey]_vars

-----------------------------------------------------------------------------
(* extractPostTitle of the Reddit adapter                                  *)

Str_sep_colon == <<" ", ":", " ">>

Str_sep_dash == <<" ", "-", " ">>

Str_reddit == <<"r", "e", "d", "d", "i", "t">>

\* an element a query found, with its textContent, or no element
Element(text) == [found |-> TRUE, text |-> text]

NoElement == [found |-> FALSE, text |-> <<>>]

\* str.split(sep)[0]
SplitFirst(str, sep) ==
    IF Includes(str, sep)
    THEN LET i == CHOOSE j \in 1..Len(str) :
                      /\ HasPrefixAt(str, j, sep)
                      /\ \A k \in 1..(j - 1) : ~HasPrefixAt(str, k, sep)
         IN  SubSeq(str, 1, i - 1)
    ELSE str

\* str.replace(/_/g, ' ')
UnderscoresToSpaces(str) == [i \in 1..Len(str) |-> IF str[i] = "_" THEN " " ELSE str[i]]

\* Method 5: the title from the slug of the URL; slug.found is whether the
\* path matches /\/comments\/[^/]+\/([^/]+)/
TitleFromSlug(slug) ==
    IF slug.found /\ slug.text # <<>> THEN UnderscoresToSpaces(slug.text) ELSE <<>>

\* Method 4 and after: the title from document.title
TitleFromPageTitle(pageTitle, slug) ==
    IF pageTitle # <<>> /\ Includes(pageTitle, Str_sep_colon)
                        /\ SplitFirst(pageTitle, Str_sep_colon) # <<>>
    THEN Trim(SplitFirst(pageTitle, Str_sep_colon))
    ELSE IF pageTitle # <<>> /\ Includes(pageTitle, Str_sep_dash)
                             /\ SplitFirst(pageTitle, Str_sep_dash) # <<>>
    THEN Trim(SplitFirst(pageTitle, Str_sep_dash))
    ELSE IF Len(pageTitle) > 0 /\ ~Includes(ToLowerCase(pageTitle), Str_reddit)
    THEN Trim(pageTitle)
    ELSE TitleFromSlug(slug)

\* Method 2 and after: queryFirst(REDDIT_SELECTORS.postTitle), then any h1
TitleFromPage(pg) ==
    IF pg.titleElement.found THEN Trim(pg.titleElement.text)
    ELSE IF pg.h1.found /\ pg.h1.text # <<>> THEN Trim(pg.h1.text)
    ELSE TitleFromPageTitle(pg.pageTitle, pg.slug)

\* extractPostTitle(); pg.post is the shreddit-post element with its title
\* attribute and the first title element inside it
extractPostTitle(pg) ==
    IF pg.post.found /\ pg.post.attribute # <<>> THEN pg.post.attribute
    ELSE IF pg.post.found /\ pg.post.inner.found /\ pg.post.inner.text # <<>>
    THEN Trim(pg.post.inner.text)
    ELSE TitleFromPage(pg)

ElementTexts == {<<>>, <<" ">>, <<"t">>}

PostElements ==
    [found : {TRUE}, attribute : {<<>>, <<"p">>},
     inner : {NoElement} \cup {Element(t) : t \in ElementTexts}]
        \cup {[found |-> FALSE, attribute |-> <<>>, inner |-> NoElement]}

PageTitles ==
    {<<>>, <<"T">>, <<"T">> \o Str_sep_colon \o <<"s">>, Str_sep_colon \o <<"s">>,
     <<"T">> \o Str_sep_dash \o <<"R">>, Str_reddit}

TitlePages ==
    [post : PostElements,
     titleElement : {NoElement, Element(<<>>), Element(<<"t">>)},
     h1 : {NoElement, Element(<<" ">>), Element(<<"h">>)},
     pageTitle : PageTitles,
     slug : {NoElement, Element(<<"a", "_", "b">>)}]

InitTitle ==
    /\ page \in TitlePages
    /\ adapters = IdleKey
    /\ call = [op |-> "init"]
    /\ adapterOut = IdleKey
    /\ extracted = IdleKey
    /\ keyIn = IdleKey
    /\ keyOut = IdleKey
    /\ store = [k \in {} |-> NoEntry]
    /\ index = NoIndex
    /\ now = 0
    /\ hung = FALSE
    /\ last = [op |-> "init"]

\* RedditAdapter.extractThreadContext on a page with a post body
ExtractRedditThread ==
    /\ call.op = "init"
    /\ \E title \in {extractPostTitle(page)} :
          call' = [op |-> "extractThreadContext", title |-> title,
                   ret |-> RedditExtractThreadContext(
                              [url |-> Url_reddit_www, ready |-> StepOk(TRUE),
                               title |-> StepOk(title), body |-> StepOk(<<"b">>),
                               comments |-> StepOk(<<>>)])]
    /\ UNCHANGED <<page, adapters, cacheVars, keyVars, extractVars>>

NextTitle == ExtractRedditThread

SpecTitle == InitTitle /\ [][NextTitle]_vars

-----------------------------------------------------------------------------
(* Two saveCacheEntry calls on different keys whose awaits interleave      *)

\* the request each of the two calls is for
SaverRequest == [p \in Savers |-> IF p = 1 THEN <<"A", "friendly">> ELSE <<"B", "friendly">>]

SaverKey == [p \in Savers |-> KeyTable[SaverRequest[p][1], SaverRequest[p][2]]]

\* cacheAnalysis builds the entry of saver p and saveCacheEntry runs up to
\* its first await
StartSaveOwnKey(p, suggestions) ==
    /\ call[p].pc = "idle"
    /\ \E entry \in {NewCacheEntry(SaverRequest[p][1], SaverRequest[p][2], suggestions, 1, now)} :
          call' = [call EXCEPT ![p] =
                      IF ExceedsEntryCap(estimateSize(entry))
                      THEN [pc |-> "threw", entry |-> entry]
                      ELSE [pc |-> "getCacheIndex", entry |-> entry]]
    /\ UNCHANGED <<page, adapters, cacheVars, keyVars, extractVars>>

NextOverlapKeys ==
    \/ \E p \in Savers, s \in AIResults : StartSaveOwnKey(p, s)
    \/ \E p \in Savers : ReadIndex(p)
    \/ \E p \in Savers : PruneBeforeSet(p)
    \/ \E p \in Savers : SetEntry(p)
    \/ \E p \in Savers : SaveIndex(p)
    \/ TimePasses

SpecOverlapKeys == InitOverlap /\ [][NextOverlapKeys]_vars

-----------------------------------------------------------------------------
(* A lookup after a save: cacheAnalysis(a, t1), then getCachedAnalysis(b, t2) *)

\* pages and spellings of them the two calls are made with
LookupUrls ==
    { [scheme |-> Str_https, host |-> c[1], path |-> c[2], query |-> q, hash |-> f] :
         c \in {<<Str_reddit_com, Str_path_123>>, <<Str_REDDIT_com, Str_path_Test_123>>},
         q \in {<<>>, <<[name |-> Str_utm_source, value |-> Str_share]>>,
                <<[name |-> Str_sort, value |-> Str_new]>>},
         f \in {<<>>, Str_top} }
    \cup {UrlB}

\* the CacheEntry cacheAnalysis builds for a url and a tone text
CacheEntryFor(u, tone, suggestions, ttlHours, t) ==
    [cacheKey |-> generateCacheKey(u, tone),
     threadUrl |-> Href(u),
     tone |-> tone,
     suggestions |-> suggestions,
     createdAt |-> t,
     expiresAt |-> t + ttlHours]

InitLookup ==
    /\ keyIn \in [a : LookupUrls, b : LookupUrls, t1 : KeyTones, t2 : KeyTones]
    /\ keyOut = IdleKey
    /\ adapterOut = IdleKey
    /\ extracted = IdleKey
    /\ IdleContent
    /\ store = [k \in {} |-> NoEntry]
    /\ index = NoIndex
    /\ now = 0
    /\ hung = FALSE
    /\ last = [op |-> "init"]

\* cacheAnalysis(a, t1, ...) on an empty cache
SaveAnalysis ==
    /\ last.op = "init"
    /\ \E entry \in {CacheEntryFor(keyIn.a, keyIn.t1, "short", 1, now)} :
       \E lookupKey \in {generateCacheKey(keyIn.b, keyIn.t2)} :
       \E r \in {saveCacheEntry([store |-> [k \in {entry.cacheKey, lookupKey} |-> NoEntry],
                                 index |-> index], entry, now)} :
          /\ Effect(r)
          /\ last' = [op |-> "cacheAnalysis", key |-> entry.cacheKey, lookupKey |-> lookupKey]
    /\ UNCHANGED <<now, keyVars, extractVars, contentVars>>

\* getCachedAnalysis(b, t2)
LookupAnalysis ==
    /\ last.op = "cacheAnalysis"
    /\ \E r \in {getCacheEntry(Storage, last.lookupKey, now, MaxCallDepth)} :
          /\ Effect(r)
          /\ keyOut' = r.ret
          /\ last' = [op |-> "getCachedAnalysis", key |-> last.lookupKey]
    /\ UNCHANGED <<now, keyIn, extractVars, contentVars>>

NextLookup == SaveAnalysis \/ LookupAnalysis

SpecLookup == InitLookup /\ [][NextLookup]_vars

-----------------------------------------------------------------------------
(* clearCache while saveCacheEntry calls are under way                     *)

\* await getCacheIndex() and the list of storage keys built from it
ClearReadIndex ==
    /\ last.op = "init"
    /\ last' = [op |-> "clearCache", pc |-> "remove",
                keys |-> getCacheIndex(Storage, now).keys]
    /\ UNCHANGED <<store, index, now, hung, keyVars, extractVars, contentVars>>

\* await chrome.storage.local.remove(keysToRemove); the record keeps what
\* was stored and where each save stood when the clear completed
ClearRemoveKeys ==
    /\ last.op = "clearCache"
    /\ last.pc = "remove"
    /\ store' = [k \in DOMAIN store |->
                    IF SeqContains(last.keys, k) THEN NoEntry ELSE store[k]]
    /\ index' = NoIndex
    /\ last' = [op |-> "clearCache", pc |-> "done", keys |-> last.keys,
                before |-> store, pcs |-> [p \in Savers |-> call[p].pc]]
    /\ UNCHANGED <<now, hung, keyVars, extractVars, contentVars>>

NextClearOverlap ==
    \/ \E p \in Savers, s \in AIResults : StartSaveOwnKey(p, s)
    \/ \E p \in Savers : ReadIndex(p)
    \/ \E p \in Savers : PruneBeforeSet(p)
    \/ \E p \in Savers : SetEntry(p)
    \/ \E p \in Savers : SaveIndex(p)
    \/ TimePasses
    \/ ClearReadIndex
    \/ ClearRemoveKeys

SpecClearOverlap == InitOverlap /\ [][NextClearOverlap]_vars

-----------------------------------------------------------------------------
(* The content script: focus tracking and the INSERT_TEXT message          *)

\* elements of the page: a textarea the adapter's selectors find, an editor
\* with contenteditable="true" they do not find, a span inside that editor,
\* and a plain div
Textarea == [tag |-> "textarea"]

Editor == [tag |-> "editor"]

Span == [tag |-> "span"]

Div == [tag |-> "div"]

Elements == {Textarea, Editor, Span, Div}

\* element.closest('[contenteditable="true"]')
ClosestEditable(e) == IF e \in {Editor, Span} THEN Editor ELSE Null

\* the elements removed with e when e is detached
Subtree(e) == IF e = Editor THEN {Editor, Span} ELSE {e}

isReplyInput(e) == e \in {Textarea, Editor}

\* the focusin listener of trackInputFocus
OnFocusIn(lastFocusedInput, target) ==
    IF isReplyInput(target) THEN target ELSE lastFocusedInput

\* the click listener of trackInputFocus
OnClick(lastFocusedInput, target) ==
    IF ClosestEditable(target) # Null THEN ClosestEditable(target) ELSE lastFocusedInput

\* getLastFocusedInput without the check of document.contains
getLastFocusedInputUnchecked(pg) == pg.lastFocusedInput

getLastFocusedInput(pg) ==
    IF pg.lastFocusedInput # Null /\ pg.lastFocusedInput \in pg.attached
    THEN pg.lastFocusedInput
    ELSE Null

\* document.querySelector(targetSelector), for the selector of element e
querySelector(pg, targetSelector) ==
    IF targetSelector \in pg.attached THEN targetSelector ELSE Null

\* adapter.findReplyInput()
findReplyInput(pg) == IF Textarea \in pg.attached THEN Textarea ELSE Null

\* the element handleInsertText inserts into, and where it came from
FindTarget(pg, targetSelector) ==
    LET bySelector == IF targetSelector # Null THEN querySelector(pg, targetSelector) ELSE Null
    IN IF bySelector # Null THEN [input |-> bySelector, from |-> "targetSelector"]
       ELSE IF findReplyInput(pg) # Null
            THEN [input |-> findReplyInput(pg), from |-> "findReplyInput"]
            ELSE IF getLastFocusedInput(pg) # Null
                 THEN [input |-> getLastFocusedInput(pg), from |-> "getLastFocusedInput"]
                 ELSE [input |-> Null, from |-> "none"]

ElementKind(e) == IF e = Textarea THEN "textarea" ELSE "contenteditable"

\* handleInsertText(request): the page afterwards, the toasts shown, the
\* target and whether the call threw
handleInsertText(pg, hasAdapter, text, targetSelector, reaction, restoreReaction) ==
    IF ~hasAdapter
    THEN [page |-> pg, toasts |-> <<"Could not insert text">>, threw |-> FALSE,
          target |-> [input |-> Null, from |-> "none"]]
    ELSE LET target == FindTarget(pg, targetSelector)
         IN IF target.input = Null
            THEN [page |-> pg, toasts |-> <<"No reply box found">>, threw |-> FALSE,
                  target |-> target]
            ELSE LET r == insertText([text |-> pg.texts[target.input],
                                      kind |-> ElementKind(target.input)],
                                     text, reaction, restoreReaction)
                 IN [page |-> [pg EXCEPT !.texts[target.input] = r.input.text],
                     toasts |-> <<>>, threw |-> r.threw, target |-> target]

\* the INSERT_TEXT branch of handleMessage: the responses sent
InsertTextResponses(handled) ==
    IF handled.threw THEN <<>> ELSE <<[success |-> TRUE]>>

InitContentScript ==
    /\ page = [attached |-> Elements, lastFocusedInput |-> Null, tracked |-> Null,
               texts |-> [e \in Elements |-> <<>>]]
    /\ adapters \in BOOLEAN
    /\ call = [op |-> "init"]
    /\ adapterOut = IdleKey
    /\ extracted = IdleKey
    /\ keyIn = IdleKey
    /\ keyOut = IdleKey
    /\ store = [k \in {} |-> NoEntry]
    /\ index = NoIndex
    /\ now = 0
    /\ hung = FALSE
    /\ last = [op |-> "init"]

\* a focusin event reaches the capture-phase listener
FocusIn(target) ==
    /\ target \in page.attached
    /\ page' = [page EXCEPT !.lastFocusedInput = OnFocusIn(page.lastFocusedInput, target),
                            !.tracked = IF isReplyInput(target) THEN target ELSE @]
    /\ call' = [op |-> "focusin", target |-> target]
    /\ UNCHANGED <<adapters, cacheVars, keyVars, extractVars>>

\* a click event reaches the capture-phase listener
Click(target) ==
    /\ target \in page.attached
    /\ page' = [page EXCEPT !.lastFocusedInput = OnClick(page.lastFocusedInput, target),
                            !.tracked = IF target \in {Editor, Span} THEN Editor ELSE @]
    /\ call' = [op |-> "click", target |-> target]
    /\ UNCHANGED <<adapters, cacheVars, keyVars, extractVars>>

\* the page removes an element from the document
Detach(e) ==
    /\ e \in page.attached
    /\ page' = [page EXCEPT !.attached = @ \ Subtree(e)]
    /\ call' = [op |-> "detach", target |-> e]
    /\ UNCHANGED <<adapters, cacheVars, keyVars, extractVars>>

ClearLastFocusedInput ==
    /\ page' = [page EXCEPT !.lastFocusedInput = Null, !.tracked = Null]
    /\ call' = [op |-> "clear"]
    /\ UNCHANGED <<adapters, cacheVars, keyVars, extractVars>>

\* handleMessage receives INSERT_TEXT
ReceiveInsertText(text, targetSelector, reaction, restoreReaction) ==
    /\ \E r \in {handleInsertText(page, adapters, text, targetSelector,
                                  reaction, restoreReaction)} :
          /\ page' = r.page
          /\ call' = [op |-> "INSERT_TEXT", before |-> page, targetSelector |-> targetSelector,
                      target |-> r.target, toasts |-> r.toasts, threw |-> r.threw,
                      responses |-> InsertTextResponses(r)]
    /\ UNCHANGED <<adapters, cacheVars, keyVars, extractVars>>

NextContentScript ==
    \/ \E e \in Elements : FocusIn(e)
    \/ \E e \in Elements : Click(e)
    \/ \E e \in Elements : Detach(e)
    \/ ClearLastFocusedInput
    \/ \E targetSelector \in Elements \cup {Null},
          reaction \in {"keeps", "empties", "throwsBefore", "throwsAfter"},
          restoreReaction \in {"keeps", "throwsBefore"} :
             ReceiveInsertText(Str_hi, targetSelector, reaction, restoreReaction)

SpecContentScript == InitContentScript /\ [][NextContentScript]_vars

-----------------------------------------------------------------------------
(* The Twitter adapter: the main tweet and its replies                     *)

\* EXTRACTION_CONFIG.MAX_COMMENTS, scaled to pages of four tweets
MAX_COMMENTS == 2

\* the length the adapters cut a comment to, scaled to texts of six characters
MAX_COMMENT_LENGTH == 5

\* EXTRACTION_CONFIG.MAX_POST_TITLE_LENGTH and MAX_POST_BODY_LENGTH, scaled
MAX_POST_TITLE_LENGTH == 4

MAX_POST_BODY_LENGTH == 6

\* BasePlatformAdapter.truncateText
truncateText(text, maxLength) ==
    IF Len(text) <= maxLength THEN text
    ELSE SubSeq(text, 1, maxLength - 3) \o <<".", ".", ".">>

Str_status == <<"/", "s", "t", "a", "t", "u", "s", "/">>

DecimalDigits == {"0", "1", "2", "3", "4", "5", "6", "7", "8", "9"}

\* the longest run of digits s starts with
RECURSIVE LeadingDigits(_)
LeadingDigits(s) ==
    IF s # <<>> /\ Head(s) \in DecimalDigits
    THEN <<Head(s)>> \o LeadingDigits(Tail(s))
    ELSE <<>>

\* window.location.pathname.match(/\/status\/(\d+)/)?.[1] ?? ''
getTweetIdFromUrl(pathname) ==
    LET starts == {i \in 1..Len(pathname) :
                      /\ i + Len(Str_status) <= Len(pathname)
                      /\ SubSeq(pathname, i, i + Len(Str_status) - 1) = Str_status
                      /\ pathname[i + Len(Str_status)] \in DecimalDigits}
    IN IF starts = {} THEN <<>>
       ELSE LET i == CHOOSE j \in starts : \A k \in starts : j <= k
            IN LeadingDigits(SubSeq(pathname, i + Len(Str_status), Len(pathname)))

\* timeLink && timeLink.getAttribute('href')?.includes(tweetId)
LinksTo(tweet, tweetId) == tweet.href # <<>> /\ Includes(tweet.href, tweetId)

\* the status link of the tweet carries the id itself, not a longer one
LinksToExactly(tweet, tweetId) ==
    /\ tweet.href # <<>>
    /\ getTweetIdFromUrl(tweet.href) = tweetId

\* TwitterAdapter.extractMainTweet: the text of the main tweet
extractMainTweet(pg) ==
    LET tweetId == getTweetIdFromUrl(pg.pathname)
        matching == {i \in 1..Len(pg.tweets) : LinksTo(pg.tweets[i], tweetId)}
    IN IF matching # {}
       THEN pg.tweets[CHOOSE i \in matching : \A j \in matching : i <= j].text
       ELSE IF pg.tweets # <<>> THEN pg.tweets[1].text ELSE <<>>

\* the loop of TwitterAdapter.extractReplies over the tweets from i on
RECURSIVE RepliesFrom(_, _, _, _, _)
RepliesFrom(tweets, i, mainTweetId, foundMainTweet, comments) ==
    IF i > Len(tweets) THEN comments
    ELSE IF LinksTo(tweets[i], mainTweetId)
         THEN RepliesFrom(tweets, i + 1, mainTweetId, TRUE, comments)
         ELSE IF ~foundMainTweet
              THEN RepliesFrom(tweets, i + 1, mainTweetId, foundMainTweet, comments)
              ELSE IF Len(comments) >= MAX_COMMENTS THEN comments
                   ELSE RepliesFrom(tweets, i + 1, mainTweetId, foundMainTweet,
                           IF tweets[i].text # <<>>
                           THEN Append(comments,
                                   [text |-> truncateText(tweets[i].text, MAX_COMMENT_LENGTH),
                                    node |-> i, parentId |-> Null, depth |-> 0])
                           ELSE comments)

extractReplies(pg) == RepliesFrom(pg.tweets, 1, getTweetIdFromUrl(pg.pathname), FALSE, <<>>)

\* TwitterAdapter.extractThreadContext after waitForContent
TwitterThreadContext(pg) ==
    IF extractMainTweet(pg) = <<>> THEN Null
    ELSE [platform |-> "twitter", postTitle |-> <<>>,
          postBody |-> truncateText(extractMainTweet(pg), MAX_POST_BODY_LENGTH),
          comments |-> extractReplies(pg)]

Str_u == <<"/", "u">>

\* tweet nodes: the href of the status link of a tweet, empty when it has
\* none, and its text
TweetNodes ==
    [href : {<<>>, Str_u \o Str_status \o <<"1", "2">>,
             Str_u \o Str_status \o <<"1", "2", "3">>,
             Str_u \o Str_status \o <<"7">>},
     text : {<<>>, <<"a">>, <<"l", "o", "n", "g", "e", "r">>}]

MaxTweets == 4

TweetPages ==
    [pathname : {Str_u \o Str_status \o <<"1", "2">>, Str_u \o Str_status \o <<"1", "2", "3">>},
     tweets : UNION {[1..n -> TweetNodes] : n \in 0..MaxTweets}]

InitTwitter ==
    /\ page \in TweetPages
    /\ adapters = IdleKey
    /\ call = [op |-> "init"]
    /\ adapterOut = IdleKey
    /\ extracted = IdleKey
    /\ keyIn = IdleKey
    /\ keyOut = IdleKey
    /\ store = [k \in {} |-> NoEntry]
    /\ index = NoIndex
    /\ now = 0
    /\ hung = FALSE
    /\ last = [op |-> "init"]

ExtractTwitterThread ==
    /\ call.op = "init"
    /\ extracted' = TwitterThreadContext(page)
    /\ call' = [op |-> "extractThreadContext"]
    /\ UNCHANGED <<page, adapters, adapterOut, cacheVars, keyVars>>

NextTwitter == ExtractTwitterThread

SpecTwitter == InitTwitter /\ [][NextTwitter]_vars

-----------------------------------------------------------------------------
(* Truncation of the extracted text fields                                 *)

\* the maximum length the Reddit adapter passes to truncateText per field
MaxLengthOf ==
    [field \in {"postTitle", "postBody", "comment"} |->
        CASE field = "postTitle" -> MAX_POST_TITLE_LENGTH
          [] field = "postBody" -> MAX_POST_BODY_LENGTH
          [] field = "comment" -> MAX_COMMENT_LENGTH]

\* the field as it is put into the ThreadContext
TruncateField(field, text) == truncateText(text, MaxLengthOf[field])

MaxTextLen == 7

FieldTexts == UNION {[1..n -> {"a", ".", "\n"}] : n \in 0..MaxTextLen}

InitTruncate ==
    /\ page \in [field : DOMAIN MaxLengthOf, text : FieldTexts]
    /\ adapters = IdleKey
    /\ call = [op |-> "init"]
    /\ adapterOut = IdleKey
    /\ extracted = IdleKey
    /\ keyIn = IdleKey
    /\ keyOut = IdleKey
    /\ store = [k \in {} |-> NoEntry]
    /\ index = NoIndex
    /\ now = 0
    /\ hung = FALSE
    /\ last = [op |-> "init"]

\* the adapter fills the field of the ThreadContext
ExtractField ==
    /\ call.op = "init"
    /\ extracted' = TruncateField(page.field, page.text)
    /\ call' = [op |-> "truncateText"]
    /\ UNCHANGED <<page, adapters, adapterOut, cacheVars, keyVars>>

NextTruncate == ExtractField

SpecTruncate == InitTruncate /\ [][NextTruncate]_vars

-----------------------------------------------------------------------------
(* The Reddit adapter: extraction of the comments                          *)

MAX_COMMENT_DEPTH == 3

DigitValue(c) == CHOOSE n \in 0..9 : <<"0", "1", "2", "3", "4", "5", "6", "7", "8", "9">>[n + 1] = c

\* parseInt(str, 10) of a string of decimal digits
RECURSIVE parseInt(_)
parseInt(str) ==
    IF Len(str) = 1 THEN DigitValue(str[1])
    ELSE 10 * parseInt(SubSeq(str, 1, Len(str) - 1)) + DigitValue(str[Len(str)])

\* extractShredditComment without the test of the depth
extractShredditCommentAnyDepth(element, node) ==
    IF element.text = <<>> THEN Null
    ELSE [node |-> node,
          text |-> truncateText(element.text, MAX_COMMENT_LENGTH),
          parentId |-> element.parentid,
          depth |-> IF element.depth # <<>> THEN parseInt(element.depth) ELSE 0]

\* RedditAdapter.extractShredditComment: the Comment or null
extractShredditComment(element, node) ==
    LET depth == IF element.depth # <<>> THEN parseInt(element.depth) ELSE 0
    IN IF depth > MAX_COMMENT_DEPTH THEN Null
       ELSE IF element.text = <<>> THEN Null
            ELSE [node |-> node,
                  text |-> truncateText(element.text, MAX_COMMENT_LENGTH),
                  parentId |-> element.parentid,
                  depth |-> depth]

\* RedditAdapter.extractSingleComment: the Comment or null
extractSingleComment(element, node, depth) ==
    IF depth > MAX_COMMENT_DEPTH THEN Null
    ELSE IF element.text = <<>> THEN Null
         ELSE [node |-> node,
               text |-> truncateText(element.text, MAX_COMMENT_LENGTH),
               parentId |-> Null,
               depth |-> depth]

\* the comments pushed for the elements i..n of a list
RECURSIVE PushComments(_, _, _, _)
PushComments(elements, i, n, shreddit) ==
    IF i > n THEN <<>>
    ELSE LET comment == IF shreddit THEN extractShredditComment(elements[i], i)
                        ELSE extractSingleComment(elements[i], i, 0)
         IN (IF comment # Null THEN <<comment>> ELSE <<>>)
               \o PushComments(elements, i + 1, n, shreddit)

\* RedditAdapter.extractComments
extractComments(pg) ==
    IF Len(pg.shredditComments) > 0
    THEN PushComments(pg.shredditComments, 1,
                      IF Len(pg.shredditComments) < MAX_COMMENTS
                      THEN Len(pg.shredditComments) ELSE MAX_COMMENTS, TRUE)
    ELSE PushComments(pg.commentElements, 1,
                      IF Len(pg.commentElements) < MAX_COMMENTS
                      THEN Len(pg.commentElements) ELSE MAX_COMMENTS, FALSE)

MaxElements == 3

\* shreddit-comment elements: the depth attribute, the text and the parent
ShredditElements ==
    [depth : {<<>>, <<"0">>, <<"2">>, <<"3">>, <<"4">>, <<"1", "0">>},
     text : {<<>>, <<"a">>},
     parentid : {Null}]

\* comment containers of the old layout
CommentElements == [text : {<<>>, <<"a">>, <<"l", "o", "n", "g", "e", "r">>}]

CommentPages ==
    {[shredditComments |-> s, commentElements |-> <<>>] :
        s \in UNION {[1..n -> ShredditElements] : n \in 1..MaxElements}}
    \cup {[shredditComments |-> <<>>, commentElements |-> c] :
             c \in UNION {[1..n -> CommentElements] : n \in 0..MaxElements}}

InitComments ==
    /\ page \in CommentPages
    /\ adapters = IdleKey
    /\ call = [op |-> "init"]
    /\ adapterOut = IdleKey
    /\ extracted = IdleKey
    /\ keyIn = IdleKey
    /\ keyOut = IdleKey
    /\ store = [k \in {} |-> NoEntry]
    /\ index = NoIndex
    /\ now = 0
    /\ hung = FALSE
    /\ last = [op |-> "init"]

ExtractComments ==
    /\ call.op = "init"
    /\ extracted' = extractComments(page)
    /\ call' = [op |-> "extractComments"]
    /\ UNCHANGED <<page, adapters, adapterOut, cacheVars, keyVars>>

NextComments == ExtractComments

SpecComments == InitComments /\ [][NextComments]_vars

-----------------------------------------------------------------------------
(* Properties of the cache, checked under Spec *)

IndexKeys(idx) == IF idx = NoIndex THEN <<>> ELSE idx.keys

IndexKeySet(idx) == {IndexKeys(idx)[i] : i \in 1..Len(IndexKeys(idx))}

StoredKeys(s) == {k \in DOMAIN s : s[k] # NoEntry}

RECURSIVE SumOfSizes(_, _)
SumOfSizes(s, keys) ==
    IF keys = {} THEN 0
    ELSE LET k == CHOOSE x \in keys : TRUE
         IN  estimateSize(s[k]) + SumOfSizes(s, keys \ {k})

\* C1: getCacheEntry(key) on a stored entry with now > expiresAt completes
\* returning null, and afterwards the entry is neither in the store nor in
\* the index.
C1_ExpiredReadRemoves ==
    [][\A k \in CacheKeys :
          (/\ last'.op = "getCacheEntry"
           /\ last'.key = k
           /\ store[k] # NoEntry
           /\ now > store[k].expiresAt)
          => (/\ last'.ret = Null
              /\ store'[k] = NoEntry
              /\ k \notin IndexKeySet(index'))]_vars

\* C2: a read never returns an entry with now > expiresAt, and returns the
\* stored entry whenever now <= expiresAt; getCachedAnalysis is observed
\* through the response of ANALYZE_THREAD.
C2_NoExpiredServed ==
    [][/\ \A k \in CacheKeys :
             (last'.op = "getCacheEntry" /\ last'.key = k /\ store[k] # NoEntry)
             => IF now > store[k].expiresAt
                THEN last'.ret \in {Null, Diverged}
                ELSE last'.ret = store[k]
       /\ \A q \in Requests :
             (/\ last'.op = "ANALYZE_THREAD"
              /\ last'.url = q[1]
              /\ last'.tone = q[2]
              /\ store[KeyTable[q[1], q[2]]] # NoEntry)
             => LET entry == store[KeyTable[q[1], q[2]]]
                IN  IF now > entry.expiresAt
                    THEN last'.resp = NoResponse \/ ~last'.resp.success
                                                 \/ ~last'.resp.fromCache
                    ELSE last'.resp = AnalysisResponse(entry.suggestions, TRUE)]_vars

\* an entry was read exactly at its expiry time and was returned
C2_Witness ==
    /\ last.op = "getCacheEntry"
    /\ last.ret \notin {Null, Diverged}
    /\ now = last.ret.expiresAt

\* C3: an ANALYZE_THREAD that repeats the successful request before it, with
\* the same url and tone, returns the same suggestions with fromCache = true
\* and does not call the AI client.
C3_RepeatServedFromCache ==
    [][(/\ last.op = "ANALYZE_THREAD"
        /\ last.resp # NoResponse
        /\ last.resp.success
        /\ last'.op = "ANALYZE_THREAD"
        /\ last'.url = last.url
        /\ last'.tone = last.tone)
       => (/\ last'.resp = AnalysisResponse(last.resp.suggestions, TRUE)
           /\ ~last'.aiCalled)]_vars

\* the request stored on a miss was repeated and answered from the cache
C3_Witness ==
    /\ last.op = "ANALYZE_THREAD"
    /\ last.repeat
    /\ last.resp # NoResponse
    /\ last.resp.success
    /\ last.resp.fromCache

\* ceil(n * 0.2) as the least m with 5 * m >= n
CeilFifth(n) == CHOOSE m \in 0..n : 5 * m >= n /\ 5 * (m - 1) < n

\* what pruneCache leaves of a cache of N entries: N - ceil(N * 0.2) of
\* them, none of which is older than a removed one
PrunePostcondition ==
    LET before == StoredKeys(store)
        after == StoredKeys(store')
    IN  /\ after \subseteq before
        /\ \A k \in after : store'[k] = store[k]
        /\ Cardinality(after) = Cardinality(before) - CeilFifth(Cardinality(before))
        /\ \A r \in before \ after, k \in after : store[r].createdAt <= store[k].createdAt

\* C4: after pruneCache() ran on a cache of N entries, N - ceil(N * 0.2)
\* entries remain and the removed ones are the oldest by createdAt; for
\* N = 0 nothing is removed.
C4_PruneEvictsOldestFifth ==
    [][last'.op = "pruneCache" => PrunePostcondition]_vars

\* the same for the calls of pruneCache that return
PruneOnReturn ==
    [][(last'.op = "pruneCache" /\ last'.ret = Ok) => PrunePostcondition]_vars

\* C5: saveCacheEntry throws for an entry larger than MAX_ENTRY_SIZE_BYTES
\* and then changes neither the store nor the index.
C5_OversizedRejected ==
    [][(/\ last'.op = "saveCacheEntry"
        /\ PayloadBytes[last'.suggestions] > MAX_ENTRY_SIZE_BYTES)
       => (/\ last'.ret = Threw
           /\ store' = store
           /\ index' = index)]_vars

\* an oversized save was refused while the cache held entries
C5_Witness ==
    /\ last.op = "saveCacheEntry"
    /\ last.ret = Threw
    /\ StoredKeys(store) # {}

\* C6: after any sequence of completed operations the set of index keys is
\* the set of keys that have an entry in the store.
C6_IndexMatchesStore ==
    ~hung => IndexKeySet(index) = StoredKeys(store)

\* C7: after any sequence of completed operations index.totalSize is the sum
\* of the sizes of the stored entries.
C7_TotalSizeTracksStore ==
    ~hung => getCacheIndex(Storage, now).totalSize = SumOfSizes(store, StoredKeys(store))

-----------------------------------------------------------------------------
(* Properties of the key derivation, checked under SpecKey *)

TrackingParams == {Str_utm_source, Str_utm_medium, Str_utm_campaign, Str_ref, Str_context}

\* a URL without what the key is to ignore: letter case, the tracking
\* parameters and the fragment
WithoutNoise(u) ==
    [scheme |-> ToLowerCase(u.scheme),
     host |-> ToLowerCase(u.host),
     path |-> ToLowerCase(u.path),
     query |-> LET kept == SelectSeq(u.query,
                                     LAMBDA p : ToLowerCase(p.name) \notin TrackingParams)
               IN  [i \in 1..Len(kept) |-> [name |-> ToLowerCase(kept[i].name),
                                            value |-> ToLowerCase(kept[i].value)]]]

\* two absolute URLs that differ only in letter case, tracking parameters
\* and fragment
DifferOnlyInNoise(a, b) ==
    /\ a.scheme # <<>>
    /\ b.scheme # <<>>
    /\ WithoutNoise(a) = WithoutNoise(b)

\* C8: for every tone, two URLs that differ only in letter case, in the
\* tracking query parameters or in the fragment yield the same key.
C8_KeyIgnoresNoise ==
    (keyOut # IdleKey /\ DifferOnlyInNoise(keyIn.a, keyIn.b)) => keyOut.a1 = keyOut.b1

\* what of C8 the code does: the tracking parameters are recognised in
\* lower case only
NoUpperCaseParam(u) == \A i \in 1..Len(u.query) : u.query[i].name = ToLowerCase(u.query[i].name)

KeyIgnoresNoiseOfLowerCaseParams ==
    (/\ keyOut # IdleKey
     /\ DifferOnlyInNoise(keyIn.a, keyIn.b)
     /\ NoUpperCaseParam(keyIn.a)
     /\ NoUpperCaseParam(keyIn.b))
    => keyOut.a1 = keyOut.b1

\* C9 as stated: for every url, two distinct tones give two distinct keys.
C9_TonesGiveDistinctKeys ==
    (keyOut # IdleKey /\ keyIn.t1 # keyIn.t2) => keyOut.a1 # keyOut.a2

\* C9, amended: for every url, two distinct tone presets give two distinct
\* keys; two distinct custom tone texts can give the same key, as "Aa" and
\* "BB" do for every url.
C9_PresetTonesGiveDistinctKeys ==
    /\ (/\ keyOut # IdleKey
        /\ keyIn.t1 # keyIn.t2
        /\ keyIn.t1 \in PresetToneTexts
        /\ keyIn.t2 \in PresetToneTexts)
       => keyOut.a1 # keyOut.a2
    /\ (keyOut # IdleKey /\ keyIn.t1 = Str_Aa /\ keyIn.t2 = Str_BB)
       => keyOut.a1 = keyOut.a2

\* keys of two distinct presets were derived for a URL with tracking noise
C9_Witness ==
    /\ keyOut # IdleKey
    /\ keyIn.t1 = Str_friendly
    /\ keyIn.t2 = Str_professional
    /\ keyIn.a.query # <<>>
    /\ keyOut.a1 # keyOut.a2

-----------------------------------------------------------------------------
(* Properties of the thread extraction, checked under SpecExtract *)

NonBlank(s) == \E i \in 1..Len(s) : s[i] \notin WhiteSpace

PassesGate(c) ==
    /\ c.url # <<>>
    /\ c.platform \in {"reddit", "twitter", "facebook"}
    /\ NonBlank(c.postTitle) \/ NonBlank(c.postBody) \/ c.comments # <<>>

\* C10: every non-null context extractThreadContext returns has a non-empty
\* url, a platform of reddit, twitter or facebook, and a non-blank title, a
\* non-blank body or a comment; an adapter result without one of these is
\* turned into null.
C10_ValidationGate ==
    extracted # IdleKey
    => /\ extracted # Null => (extracted = adapterOut /\ PassesGate(extracted))
       /\ (adapterOut \in AdapterContexts /\ ~PassesGate(adapterOut)) => extracted = Null

\* a context with title and comments but an empty url was turned into null
C10_Witness ==
    /\ extracted = Null
    /\ adapterOut \in AdapterContexts
    /\ adapterOut.url = <<>>
    /\ NonBlank(adapterOut.postTitle)
    /\ adapterOut.comments # <<>>
    /\ adapterOut.platform = "reddit"

-----------------------------------------------------------------------------
(* Properties of the adapter registry, checked under SpecRegistry *)

\* the positions of the registered adapters that can handle url
Handlers(url) == {i \in 1..Len(adapters) : canHandle(adapters[i], url)}

\* C12: getAdapter(url) returns the earliest-registered adapter whose
\* canHandle(url) is true and null when there is none; the registry holds
\* at most one adapter per platform and starts with reddit, twitter,
\* facebook in this order.
C12_FirstMatchWins ==
    /\ \A i, j \in 1..Len(adapters) : adapters[i].platform = adapters[j].platform => i = j
    /\ Len(adapters) >= 3
    /\ <<adapters[1].platform, adapters[2].platform, adapters[3].platform>>
          = <<"reddit", "twitter", "facebook">>
    /\ call.op = "getAdapter"
       => IF Handlers(call.url) = {} THEN call.ret = Null
          ELSE /\ call.ret # Null
               /\ \E i \in Handlers(call.url) :
                     /\ call.ret = adapters[i]
                     /\ \A j \in Handlers(call.url) : i <= j

\* a url that two registered adapters can handle went to the earlier one,
\* and a second adapter for reddit was not registered
C12_Witness ==
    /\ call.op = "getAdapter"
    /\ Cardinality(Handlers(call.url)) >= 2
    /\ call.ret = redditAdapter
    /\ Len(adapters) = 5

-----------------------------------------------------------------------------
(* Properties of the extraction from a page, checked under SpecAdapter *)

BuiltInAdapters == {redditAdapter, twitterAdapter, facebookAdapter}

IsThreadContext(v) ==
    DOMAIN v = {"url", "platform", "postTitle", "postBody", "comments"}

\* C11: extractThreadContext of the Reddit, Twitter and Facebook adapter and
\* of the Thread Extractor ends with a ThreadContext or null and never with
\* an exception, whatever step of the extraction throws; without an adapter
\* for the page URL the Thread Extractor returns null.
C11_ExtractionNeverThrows ==
    extracted # IdleKey
    => /\ getAdapter(adapters, page.url) \in BuiltInAdapters
          => (adapterOut = Null \/ IsThreadContext(adapterOut))
       /\ extracted = Null \/ IsThreadContext(extracted)
       /\ Handlers(page.url) = {} => extracted = Null

\* a step of a built-in adapter threw and the extraction ended with null
C11_Witness ==
    /\ extracted = Null
    /\ adapterOut = Null
    /\ getAdapter(adapters, page.url) = twitterAdapter
    /\ ~page.ready.threw
    /\ page.comments.threw

-----------------------------------------------------------------------------
(* Properties of insertText, checked under SpecInsert *)

FirstWriteThrew == call.op = "insertText" /\ call.reaction \in {"throwsBefore", "throwsAfter"}

RestoreThrew == call.restoreReaction \in {"throwsBefore", "throwsAfter"}

\* C13: when adapter.setInputText throws during insertText, insertText calls
\* adapter.setInputText(input, originalText, false) with the text the input
\* held before the insertion, ignores an error of that restore, and throws
\* the original error to its caller.
C13_RollbackAndRethrow ==
    FirstWriteThrew
    => /\ call.calls = <<SetInputTextCall(call.text, FALSE), SetInputTextCall(call.before, FALSE)>>
       /\ call.threw
       /\ call.error = [tag |-> "error", from |-> 1]
       /\ call.restoreReaction = "keeps" => page.text = call.before

\* the insertion and the restore both threw
C13_Witness ==
    /\ FirstWriteThrew
    /\ call.reaction = "throwsAfter"
    /\ RestoreThrew
    /\ call.before = <<"d">>
    /\ call.threw
    /\ Len(call.calls) = 2

\* the text of the input when setInputText had returned
TextAfterWrite ==
    setInputText([text |-> call.before, kind |-> page.kind], call.text, FALSE, call.reaction).input.text

FallbackInvoked == \E i \in 1..Len(call.calls) : call.calls[i].fn = "fallbackInsert"

\* C14: after adapter.setInputText returned normally for a non-blank text,
\* insertText invokes the generic fallback exactly when the text then in the
\* input is empty or all white space; with any other text in the input,
\* equal to the intended text or not, the fallback is not invoked.
C14_FallbackOnlyWhenEmpty ==
    (call.op = "insertText" /\ ~FirstWriteThrew /\ NonBlank(call.text))
    => /\ FallbackInvoked <=> (\A i \in 1..Len(TextAfterWrite) : TextAfterWrite[i] \in WhiteSpace)
       /\ ~call.threw
       /\ FallbackInvoked => page.text = call.text

\* the editor showed another text than the intended one and no fallback ran
C14_Witness ==
    /\ call.op = "insertText"
    /\ call.reaction = "replaces"
    /\ NonBlank(call.text)
    /\ ~FallbackInvoked
    /\ page.text = <<"z">>

\* the editor showed only white space and the fallback ran
C14_WitnessFallback ==
    /\ call.op = "insertText"
    /\ call.reaction = "blanks"
    /\ FallbackInvoked

-----------------------------------------------------------------------------
(* Properties of waitForContent, checked under SpecWait *)

Waiting == IF call.op = "waitForContent" THEN ~call.resolved ELSE FALSE

WaitBounded ==
    call.op = "waitForContent"
    => /\ call.attempts <= 20
       /\ call.checks <= 21
       /\ call.checks = call.attempts + (IF call.resolved THEN 1 ELSE 0)
       /\ call.resolved <=> ~call.timer
       /\ call.resolved => (call.sawContent \/ call.checks = 21)
       /\ call.sawContent => call.resolved

\* C15: waitForContent of the Twitter and the Facebook adapter always
\* resolves: after at most 20 retries (21 checks) when the awaited content
\* never appears, and at the first check that finds the content.
C15_PollingTerminates == [](WaitBounded) /\ (Waiting ~> ~Waiting)

\* the content never appeared and the promise resolved at the 21st check
C15_Witness ==
    /\ call.op = "waitForContent"
    /\ call.resolved
    /\ ~call.sawContent
    /\ call.checks = 21
    /\ call.attempts = 20

-----------------------------------------------------------------------------
(* Properties of the rewrite hotkey, checked under SpecHotkey *)

InsertTextSent == \E i \in 1..Len(call.sent) : call.sent[i].type = "INSERT_TEXT"

RewriteFailed == ~call.hasApiKey \/ call.rewrite.tag \in {"failure", "threw"}

\* C16: in the rewrite flow of the hotkey an INSERT_TEXT message is sent
\* only after rewriteDraft returned a success response; when the rewrite
\* fails (no API key, an error response, an exception) no INSERT_TEXT is
\* sent and the text in the reply box stays as it was.
C16_FailedRewriteKeepsDraft ==
    (call.op = "hotkey" /\ call.flow = "rewrite")
    => /\ InsertTextSent => (call.rewriteCalled /\ call.rewrite.tag = "success")
       /\ RewriteFailed => (~InsertTextSent /\ page.text = call.before)

\* rewriteDraft threw and the reply box still holds the draft
C16_Witness ==
    /\ call.op = "hotkey"
    /\ call.flow = "rewrite"
    /\ call.rewriteCalled
    /\ call.rewrite.tag = "threw"
    /\ ~call.inline
    /\ page.text = Str_hi
    /\ call.sent[Len(call.sent)] = ShowToastMessage("error")

-----------------------------------------------------------------------------
(* Properties of the hourly alarm, checked under SpecAlarm *)

\* C17: when the handler of the hourly cache-prune alarm has completed, every
\* entry that was expired when the alarm fired is gone from the store and
\* from the index.
C17_AlarmRemovesExpired ==
    (last.op = "alarm" /\ last.ret = Ok)
    => \A k \in last.expired : store[k] = NoEntry /\ k \notin IndexKeySet(index)

\* the handler of the alarm returns only when it read no expired entry
AlarmReturnsWithoutRemoving ==
    (last.op = "alarm" /\ last.ret = Ok)
    => \A k \in last.expired : store[k] # NoEntry

-----------------------------------------------------------------------------
(* Properties of clearCacheForUrl, checked under SpecClear *)

\* the keys under which results for the page u are cached
KeysOfThread(u) == {KeyTable[u, tone] : tone \in TonePresets}

\* C18: when clearCacheForUrl(url) has completed, getCachedAnalysis(url, tone)
\* returns null for every tone, and the entries of other thread URLs are in
\* the store and in the index as before.
C18_ClearForUrlClearsThread ==
    [][\A u \in ThreadUrls :
          (last'.op = "clearCacheForUrl" /\ last'.url = u /\ last'.ret = Ok)
          => /\ \A tone \in TonePresets :
                   \* a key that was never written has no entry
                   KeyTable[u, tone] \in CacheKeys
                   => getCachedAnalysis([store |-> store', index |-> index'], u, tone, now).ret = Null
             /\ \A k \in CacheKeys \ KeysOfThread(u) :
                   /\ store'[k] = store[k]
                   /\ k \in IndexKeySet(index') <=> k \in IndexKeySet(index)]_vars

\* the entries of other threads stay when clearCacheForUrl completes
ClearForUrlKeepsOtherThreads ==
    [][\A u \in ThreadUrls :
          (last'.op = "clearCacheForUrl" /\ last'.url = u /\ last'.ret = Ok)
          => \A k \in CacheKeys \ KeysOfThread(u) :
                /\ store'[k] = store[k]
                /\ k \in IndexKeySet(index') <=> k \in IndexKeySet(index)]_vars

-----------------------------------------------------------------------------
(* Properties of overlapping saves, checked under SpecOverlap *)

BothSaved == \A p \in Savers : call[p].pc = "done"

KeyCount(k) == Cardinality({i \in 1..Len(IndexKeys(index)) : IndexKeys(index)[i] = k})

\* C19: when two saveCacheEntry calls on one key, interleaved in any order,
\* have both completed, the store holds one of the two entries under the
\* key, index.keys lists the key exactly once, and index.totalSize is not
\* smaller than the total size of the stored entries.
C19_OverlapOnlyOvercounts ==
    BothSaved
    => /\ store[OverlapKey] \in {call[p].entry : p \in Savers}
       /\ KeyCount(OverlapKey) = 1
       /\ index.totalSize >= SumOfSizes(store, StoredKeys(store))

\* one of the two entries is stored and the key is listed once
OverlapKeepsOneEntry ==
    BothSaved
    => /\ store[OverlapKey] \in {call[p].entry : p \in Savers}
       /\ KeyCount(OverlapKey) = 1

-----------------------------------------------------------------------------
(* Properties of the Reddit title, checked under SpecTitle *)

\* the text each of the five tiers produces on the page
TierTexts ==
    <<IF page.post.found THEN page.post.attribute ELSE <<>>,
      IF page.post.found /\ page.post.inner.found THEN Trim(page.post.inner.text) ELSE <<>>,
      IF page.titleElement.found /\ Trim(page.titleElement.text) # <<>>
      THEN Trim(page.titleElement.text)
      ELSE IF page.h1.found THEN Trim(page.h1.text) ELSE <<>>,
      TitleFromPageTitle(page.pageTitle, NoElement),
      TitleFromSlug(page.slug)>>

FirstNonEmptyTier ==
    IF \E i \in 1..5 : TierTexts[i] # <<>>
    THEN TierTexts[CHOOSE i \in 1..5 : TierTexts[i] # <<>> /\ \A j \in 1..(i - 1) : TierTexts[j] = <<>>]
    ELSE <<>>

\* C20: the Reddit adapter takes the title from the first of the five tiers
\* (post attribute, selector inside the post, page-wide selector or heading,
\* document title, URL slug) that produces text; the title is empty, and
\* extractThreadContext returns null, only if all five tiers produce no text.
C20_TitleTiersExhausted ==
    call.op = "extractThreadContext"
    => /\ call.title = FirstNonEmptyTier
       /\ call.title = <<>> => \A i \in 1..5 : TierTexts[i] = <<>>
       /\ call.ret = Null <=> call.title = <<>>

\* the title is never taken from a tier behind one that produced text, and
\* extractThreadContext returns null exactly for an empty title
TitleFromNoLaterTier ==
    call.op = "extractThreadContext"
    => /\ call.title # <<>> => call.title = FirstNonEmptyTier
       /\ call.ret = Null <=> call.title = <<>>

\* a page whose title element is found without text: the title is empty
\* although the document title and the URL slug name the post
EmptyTitleElementEndsSearch ==
    /\ call.op = "extractThreadContext"
    /\ ~page.post.found
    /\ page.titleElement = Element(<<>>)
    /\ page.pageTitle = <<"T">> \o Str_sep_colon \o <<"s">>
    /\ page.slug.found
    /\ call.title = <<>>
    /\ call.ret = Null

-----------------------------------------------------------------------------
(* Properties of ANALYZE_THREAD when the result cannot be stored *)

\* the AI client was called and answered with suggestions
AISucceeded ==
    /\ last.op = "ANALYZE_THREAD"
    /\ last.aiCalled
    /\ last.resp # ErrorResponse("AI_ERROR")

\* C30: when the AI call of an ANALYZE_THREAD request succeeds and storing
\* the result is rejected because the entry exceeds the per-entry size cap,
\* the requester still receives a success response with the suggestions and
\* fromCache = false.
C30_WriteFailureStillSucceeds ==
    (AISucceeded /\ last.resp # NoResponse)
    => /\ last.resp.success
       /\ ~last.resp.fromCache

\* when the AI answered and the request still failed, the requester got
\* UNKNOWN_ERROR
WriteFailureAnswersError ==
    (AISucceeded /\ last.resp # NoResponse /\ ~last.resp.success)
    => last.resp = ErrorResponse("UNKNOWN_ERROR")

-----------------------------------------------------------------------------
(* Termination of the cache operations *)

\* C26: for any contents of the store, entries with now > expiresAt
\* included, each call of getCacheEntry, removeCacheEntry, pruneCache and
\* clearCacheForUrl returns: the calls between getCacheEntry and
\* removeCacheEntry come to an end.
C26_CacheOperationsReturn ==
    last.op \in {"getCacheEntry", "removeCacheEntry", "pruneCache", "clearCacheForUrl"}
    => last.ret # Diverged

-----------------------------------------------------------------------------
(* Properties of overlapping saves on two keys, checked under SpecOverlapKeys *)

\* C27: when two saveCacheEntry calls on different keys, interleaved in any
\* order, have both completed, both keys are in index.keys and every entry
\* in the store has its key listed in the index.
C27_NoLostIndexUpdate ==
    BothSaved
    => /\ \A p \in Savers : SaverKey[p] \in IndexKeySet(index)
       /\ StoredKeys(store) \subseteq IndexKeySet(index)

\* the entries of both calls are stored when both calls have completed
\* without an eviction
BothEntriesStored ==
    (BothSaved /\ \A p \in Savers : call[p].index.totalSize <= MAX_STORAGE_BYTES)
    => \A p \in Savers : store[SaverKey[p]] = call[p].entry

-----------------------------------------------------------------------------
(* Properties of a lookup after a save, checked under SpecLookup *)

\* getCachedAnalysis(b, t2) returned an entry
LookupHit == last.op = "getCachedAnalysis" /\ keyOut # Null

\* the entry returned belongs to the page and the tone asked for
HitIsForRequest ==
    /\ keyOut.tone = keyIn.t2
    /\ keyOut.threadUrl = Href(keyIn.a)
    /\ normalizeUrl(keyIn.a) = normalizeUrl(keyIn.b)

-----------------------------------------------------------------------------
(* Properties of clearCache beside saves, checked under SpecClearOverlap *)

\* clearCache has completed and no saveCacheEntry call is under way
ClearedAndQuiet ==
    /\ last.op = "clearCache"
    /\ last.pc = "done"
    /\ \A p \in Savers : call[p].pc \in {"idle", "threw", "hung", "done"}

\* a call stored key k after the clear completed
SavedAgain(k) ==
    \E p \in Savers :
       /\ SaverKey[p] = k
       /\ last.pcs[p] \in {"idle", "getCacheIndex", "pruneCache", "set"}
       /\ call[p].pc \in {"saveCacheIndex", "done"}

\* C28: once clearCache() has completed and the cache writes that were in
\* flight have finished, no entry that was stored before the clear completed
\* is still stored, unless its key was saved again after the clear.
C28_ClearEmptiesCache ==
    ClearedAndQuiet =>
       \A k \in CacheKeys : (last.before[k] # NoEntry /\ ~SavedAgain(k)) => store[k] = NoEntry

\* the entries the index listed when clearCache read it are removed
ClearRemovesListedKeys ==
    (last.op = "clearCache" /\ last.pc = "done") =>
       \A k \in CacheKeys : (SeqContains(last.keys, k) /\ ~SavedAgain(k)) => store[k] = NoEntry

-----------------------------------------------------------------------------
(* Properties of the content script, checked under SpecContentScript *)

\* C24: after any sequence of focus-in, click, detach and clear events,
\* getLastFocusedInput returns null or the most recently tracked editable
\* element and never a detached element, and INSERT_TEXT takes it as the
\* target only when the targetSelector and findReplyInput yield no element.
C24_LastFocusedIsLastResort ==
    /\ getLastFocusedInput(page) # Null
          => /\ getLastFocusedInput(page) = page.tracked
             /\ getLastFocusedInput(page) \in page.attached
             /\ isReplyInput(getLastFocusedInput(page))
    /\ (call.op = "INSERT_TEXT" /\ call.target.from = "getLastFocusedInput")
          => /\ call.target.input = getLastFocusedInput(call.before)
             /\ findReplyInput(call.before) = Null
             /\ call.targetSelector # Null
                   => querySelector(call.before, call.targetSelector) = Null

\* the tracked editor was the target after the textarea and the element of
\* the selector had been detached
C24_Witness ==
    /\ call.op = "INSERT_TEXT"
    /\ call.target = [input |-> Editor, from |-> "getLastFocusedInput"]
    /\ call.targetSelector = Div
    /\ ~call.threw
    /\ page.texts[Editor] = Str_hi

\* a tracked element that was detached is not returned
C24_WitnessDetached ==
    /\ page.lastFocusedInput = Textarea
    /\ Textarea \notin page.attached
    /\ getLastFocusedInput(page) = Null
    /\ call.op = "INSERT_TEXT"
    /\ call.target.from = "none"

\* C25: for each INSERT_TEXT message handled by the content script a
\* response is sent back, also when no adapter or no reply input is found
\* and when the insertion throws.
C25_InsertTextAcknowledged ==
    call.op = "INSERT_TEXT" => Len(call.responses) >= 1

\* a response is sent whenever handleInsertText returns
InsertTextAcknowledgedOnReturn ==
    (call.op = "INSERT_TEXT" /\ ~call.threw) => call.responses = <<[success |-> TRUE]>>

-----------------------------------------------------------------------------
(* Properties of the Twitter adapter, checked under SpecTwitter *)

\* the tweet nodes whose status link carries the status id of the page URL
MainTweetNodes ==
    {i \in 1..Len(page.tweets) :
        LinksToExactly(page.tweets[i], getTweetIdFromUrl(page.pathname))}

CommentNodes == [i \in 1..Len(extracted.comments) |-> extracted.comments[i].node]

\* the first MAX_COMMENTS tweet nodes after node m, in document order
NodesAfter(m) ==
    [i \in 1..(IF Len(page.tweets) - m < MAX_COMMENTS
               THEN Len(page.tweets) - m ELSE MAX_COMMENTS) |-> m + i]

\* C21: on a status page the main post is the tweet node whose permalink
\* matches the status id of the page URL, and the comments are exactly the
\* tweet nodes after that node, in document order, limited to the first
\* MAX_COMMENTS of them.
C21_RepliesFollowMainTweet ==
    (call.op = "extractThreadContext" /\ extracted # Null /\ MainTweetNodes # {}) =>
       \E m \in MainTweetNodes :
          /\ \A j \in MainTweetNodes : m <= j
          /\ extracted.postBody = page.tweets[m].text
          /\ CommentNodes = NodesAfter(m)

\* the main tweet and the tweets before it are not among the comments
MainTweetIsNoComment ==
    (call.op = "extractThreadContext" /\ extracted # Null /\ MainTweetNodes # {}) =>
       \A i \in 1..Len(extracted.comments), m \in MainTweetNodes :
          extracted.comments[i].node > m \/ \E j \in MainTweetNodes : j < m

\* at most MAX_COMMENTS comments, each with a text, in document order
RepliesAreBounded ==
    (call.op = "extractThreadContext" /\ extracted # Null) =>
       /\ Len(extracted.comments) <= MAX_COMMENTS
       /\ \A i \in 1..Len(extracted.comments) : extracted.comments[i].text # <<>>
       /\ \A i, j \in 1..Len(extracted.comments) :
             i < j => extracted.comments[i].node < extracted.comments[j].node

-----------------------------------------------------------------------------
(* Properties of the truncation, checked under SpecTruncate *)

\* the position of the last sentence or line boundary among the first
\* maxLength characters of text, 0 when there is none
LastBoundary(text, maxLength) ==
    LET at == {i \in 1..maxLength : text[i] \in {".", "\n"}}
    IN IF at = {} THEN 0 ELSE CHOOSE i \in at : \A j \in at : j <= i

\* the boundary lies past 70% of the maximum length
PastSeventyPercent(position, maxLength) == 10 * position > 7 * maxLength

TooLong == Len(page.text) > MaxLengthOf[page.field]

\* C22: a field longer than its maximum length is cut at the last sentence
\* or line boundary when that boundary lies past 70% of the maximum, and
\* hard-cut with an ellipsis marker otherwise; the result is no longer than
\* the maximum, and a text within the limit is returned unchanged.
C22_TruncationPolicy ==
    call.op = "truncateText" =>
       \E max \in {MaxLengthOf[page.field]} :
       \E cut \in {LastBoundary(page.text, IF TooLong THEN max ELSE 0)} :
          /\ ~TooLong => extracted = page.text
          /\ Len(extracted) <= max
          /\ (TooLong /\ PastSeventyPercent(cut, max)) => extracted = SubSeq(page.text, 1, cut)
          /\ (TooLong /\ ~PastSeventyPercent(cut, max)) =>
                /\ Len(extracted) >= 3
                /\ SubSeq(extracted, Len(extracted) - 2, Len(extracted)) = <<".", ".", ".">>
                /\ SubSeq(extracted, 1, Len(extracted) - 3)
                      = SubSeq(page.text, 1, Len(extracted) - 3)

\* a field within its limit is unchanged, a longer one is its first
\* max - 3 characters and an ellipsis, max characters in all
HardCutToMaximum ==
    call.op = "truncateText" =>
       /\ ~TooLong => extracted = page.text
       /\ TooLong =>
             /\ Len(extracted) = MaxLengthOf[page.field]
             /\ extracted = SubSeq(page.text, 1, MaxLengthOf[page.field] - 3)
                               \o <<".", ".", ".">>

-----------------------------------------------------------------------------
(* Properties of the comment extraction, checked under SpecComments *)

\* the elements extractComments goes through
VisitedElements ==
    LET elements == IF Len(page.shredditComments) > 0
                    THEN page.shredditComments ELSE page.commentElements
    IN [i \in 1..(IF Len(elements) < MAX_COMMENTS THEN Len(elements) ELSE MAX_COMMENTS)
           |-> elements[i]]

\* the nesting level of a visited element
NestingLevel(element) ==
    IF "depth" \in DOMAIN element /\ element.depth # <<>> THEN parseInt(element.depth) ELSE 0

=============================================================================
